---- MODULE Spec2Model ----
(***************************************************************************)
(* Model of the Eyeskimo LINE bot: the two-phase diagnostic pipeline       *)
(* (services/image.py, models/), the Firestore record store                *)
(* (services/database.py) and the webhook handlers of main.py that drive   *)
(* them.  One action per handled webhook event; every handler is modelled  *)
(* whole, from the first statement to the reply it sends.                  *)
(*                                                                         *)
(* Conventions.  A Python Optional value is a sequence of length <= 1:     *)
(* <<>> is None and <<v>> is v.  A URL is a string; NoneUrl is Python's    *)
(* None and "" the empty string, both falsy.  Probabilities and            *)
(* confidences are integer percents (0.4 is 40).                           *)
(***************************************************************************)
EXTENDS Integers, Sequences, FiniteSets, TLC

VARIABLES
    settings,    \* config.settings: the thresholds read at start-up
    store,       \* Firestore collection diagnostic_reports: id -> Optional dict
    gcs,         \* GCS bucket: the folders images/<folder>/ that hold a blob
    yoloCalls,   \* ai_manager.yolo.predict calls, per report_id of the call
    cnnCalls,    \* ai_manager.cnn.predict calls, per report_id of the call
    nextId,      \* the next uuid4 report id not handed out yet
    clock,       \* int(time.time())
    faults,      \* failures of the services around the bot so far
    classifier,  \* ai_manager.cnn: the gradients of the shared model's
                 \* parameters and the frame of each predict call under way
    user_rag_state,     \* main.user_rag_state: per user, whether the key is
                        \* present (its value is then True)
    user_survey_state,  \* main.user_survey_state: per user, <<>> or the
                        \* entry with current_survey and answers
    lastEvent    \* the webhook event handled last, and what its handler did

vars ==
    <<settings, store, gcs, yoloCalls, cnnCalls, nextId, clock, faults, classifier,
      user_rag_state, user_survey_state, lastEvent>>

-----------------------------------------------------------------------------
(* Bounds of the model.                                                    *)

MaxImages == 2      \* image messages handled (each draws one uuid4)
MaxCnnCalls == 2    \* classifier runs per report
MaxClock == 1       \* seconds the clock advances
MaxFaults == 1      \* failing calls to GCS, Firestore, LINE, OpenCV, the models
MaxAnswers == 2     \* answers a user's questionnaire entry accumulates

-----------------------------------------------------------------------------
(* schemas.py                                                              *)

\* DiagnosisStatus members (the three the classifier produces)
NOT_DETECTED == "NOT_DETECTED"
RISK == "RISK"
DETECTED == "DETECTED"

\* ProcessStatus members
PROCESSING_YOLO == "PROCESSING_YOLO"
WAITING_USER == "WAITING_USER"
PROCESSING_CNN == "PROCESSING_CNN"
COMPLETED == "COMPLETED"
FAILED == "FAILED"

ProcessStatus == {PROCESSING_YOLO, WAITING_USER, PROCESSING_CNN, COMPLETED, FAILED}

\* DiseaseType members
CATARACT == "CATARACT"
CONJUNCTIVITIS == "CONJUNCTIVITIS"
NONE == "NONE"

\* the value of a str-Enum member, as model_dump(mode='json') writes it
EnumValue(member) ==
    CASE member = NOT_DETECTED -> "Not-Detected"
      [] member = RISK -> "Risk"
      [] member = DETECTED -> "Detected"
      [] member = PROCESSING_YOLO -> "processing_yolo"
      [] member = WAITING_USER -> "waiting_for_user"
      [] member = PROCESSING_CNN -> "processing_cnn"
      [] member = COMPLETED -> "completed"
      [] member = FAILED -> "failed"
      [] member = CATARACT -> "Cataract"
      [] member = CONJUNCTIVITIS -> "Conjunctivitis"
      [] member = NONE -> "None"

EnumMembers ==
    {NOT_DETECTED, RISK, DETECTED, PROCESSING_YOLO, WAITING_USER,
     PROCESSING_CNN, COMPLETED, FAILED, CATARACT, CONJUNCTIVITIS, NONE}

\* Enum(value): the member a stored value is validated back to
EnumOf(value) == CHOOSE m \in EnumMembers : EnumValue(m) = value

\* the fields each pydantic model declares
YoloResultFields == {"is_detected", "confidence", "bbox", "crop_image_url"}

CnnResultFields ==
    {"status", "disease", "confidence", "prob_cataract", "prob_conjunctivitis",
     "heatmap_image_url"}

DiagnosticReportFields ==
    {"report_id", "user_id", "timestamp", "current_status", "original_image_url",
     "yolo_result", "cnn_result", "suggestion"}

\* BaseModel.__setattr__ accepts a declared field only: none of the models
\* sets model_config, so assigning any other name raises ValueError
SetAttrRaises(fields, name) == name \notin fields

NoneUrl == "<None>"

\* a test for the empty string alone, which lets None through
FalsyEmptyStringOnly(url) == url = ""

\* `not url`
Falsy(url) == url \in {NoneUrl, ""}

-----------------------------------------------------------------------------
(* config.py                                                               *)

DEFAULT_AI_THRESH_LOW == 40
DEFAULT_AI_THRESH_HIGH == 75

\* AI_CONF_THRESHOLD, the confidence floor handed to the detector
AI_CONF_THRESHOLD == 25

\* Settings() with no AI_THRESH_* variable in the environment
DefaultSettings ==
    [AI_THRESH_LOW |-> DEFAULT_AI_THRESH_LOW, AI_THRESH_HIGH |-> DEFAULT_AI_THRESH_HIGH]

\* Settings() with AI_THRESH_LOW and AI_THRESH_HIGH taken from the
\* environment: another ordered pair of cut points
EnvSettings == {[AI_THRESH_LOW |-> 41, AI_THRESH_HIGH |-> 74]}

\* the values AI_THRESH_LOW and AI_THRESH_HIGH can be given in the
\* environment: Settings declares both as float with no validator, so any
\* number is accepted
EnvThresholdValues == {-1, DEFAULT_AI_THRESH_LOW, DEFAULT_AI_THRESH_HIGH, 101}

\* Settings() for every environment: each threshold left at its default or
\* overridden
AnySettings ==
    [AI_THRESH_LOW : EnvThresholdValues, AI_THRESH_HIGH : EnvThresholdValues]

-----------------------------------------------------------------------------
(* Inputs of the handlers                                                  *)

Users == {"u1", "u2"}

\* one user talking to the bot
OneUser == {"u1"}

ReportIds == 1..MaxImages

\* a report_id no uuid4 call ever returns (a forged or stale postback)
GhostId == MaxImages + 1

\* the bytes of an image message: undecodable, or a decodable w x h picture
Images == {[decodable |-> FALSE, w |-> 0, h |-> 0], [decodable |-> TRUE, w |-> 4, h |-> 4]}

\* the candidates of a YOLO run, each with its confidence and its xyxy box
\* already cast to int
BoxInside == <<1, 1, 3, 3>>
BoxOverEdge == <<2, 2, 6, 6>>
BoxEmpty == <<5, 1, 7, 3>>
BoxLeftOfImage == <<-3, 1, -1, 3>>

BoxCorner == <<0, 0, 2, 2>>

\* candidate confidences just below, at and just above the floor
FloorConfs == {AI_CONF_THRESHOLD - 1, AI_CONF_THRESHOLD, AI_CONF_THRESHOLD + 1}

\* no candidate, one candidate, or two candidates with different boxes
CandidateLists ==
    {<<>>}
    \cup {<<[conf |-> c, xyxy |-> BoxInside]>> : c \in FloorConfs}
    \cup {<<[conf |-> c1, xyxy |-> b[1]], [conf |-> c2, xyxy |-> b[2]]>> :
             c1 \in FloorConfs, c2 \in FloorConfs,
             b \in {<<BoxInside, BoxCorner>>, <<BoxCorner, BoxInside>>}}

BoxLists ==
    {<<>>,
     <<[conf |-> 30, xyxy |-> BoxInside]>>,
     <<[conf |-> 30, xyxy |-> BoxEmpty]>>,
     <<[conf |-> 30, xyxy |-> BoxLeftOfImage]>>,
     <<[conf |-> 30, xyxy |-> BoxEmpty], [conf |-> 90, xyxy |-> BoxOverEdge]>>}

\* sigmoid outputs <<p_cat, p_conj>> of a classifier run: one pair for each
\* DiagnosisStatus under the default thresholds
ProbPairs == {<<39, 20>>, <<20, 40>>, <<75, 75>>}

\* sigmoid outputs on and around the cut points, either class dominant
ProbValues == {39, 40, 41, 74, 75}
AllProbPairs == ProbValues \X ProbValues

\* what one _upload_to_gcs call meets: upload_from_string raises; the blob is
\* stored and a signed URL is made; the blob is stored and both signing
\* attempts fail
UploadOutcomes == {"upload_error", "signed", "unsigned"}

\* what one _download_image_from_url call meets: requests raises; the bytes
\* decode; cv2.imdecode returns None
DownloadOutcomes == {"http_error", "image", "undecodable"}

Folders == {"original", "crops", "heatmaps", "boxed", "charts"}

\* What a handler meets is a record of the outcome of each call it makes to
\* a service around the bot.  handle_image_message: get_message_content, the
\* upload of the original, cv2.imencode and the upload of the crop, the
\* Firestore write, the loading of the confirmation template, the LINE reply.
ImageEnvOk ==
    [contentOk |-> TRUE, origUp |-> "signed", encodeOk |-> TRUE, cropUp |-> "signed",
     dbOk |-> TRUE, tplOk |-> TRUE, lineOk |-> TRUE]

\* A confirmation: the Firestore read, the crop download, the classifier run,
\* cv2.imencode and the upload of the heat map, the download of the original,
\* imencode and the upload of the boxed original, the chart rendering and its
\* upload, the Firestore write, the loading of the result template, the reply.
CnnEnvOk ==
    [dbGet |-> TRUE, cropDl |-> "image", predOk |-> TRUE, hmEnc |-> TRUE,
     hmUp |-> "signed", origDl |-> "image", boxEnc |-> TRUE, boxUp |-> "signed",
     chartOk |-> TRUE, chartUp |-> "signed", dbSave |-> TRUE, tplOk |-> TRUE,
     lineOk |-> TRUE]

\* A read-only handler: the Firestore read, the template, the reply.
ReadEnvOk == [dbGet |-> TRUE, tplOk |-> TRUE, lineOk |-> TRUE]

\* the outcomes of a step other than the one in which all goes well
BadOutcomes(step) ==
    IF step \in {"origUp", "cropUp", "hmUp", "boxUp", "chartUp"}
    THEN UploadOutcomes \ {"signed"}
    ELSE IF step \in {"cropDl", "origDl"} THEN DownloadOutcomes \ {"image"}
    ELSE {FALSE}

\* the number of steps of e that do not go as in ok
FaultsIn(e, ok) == Cardinality({step \in DOMAIN ok : e[step] # ok[step]})

\* e with one more step going badly
OneMoreFault(e, ok) ==
    UNION {{[e EXCEPT ![step] = bad] : bad \in BadOutcomes(step)} :
           step \in {x \in DOMAIN ok : e[x] = ok[x]}}

\* the environments with at most k failing steps
RECURSIVE EnvsWithin(_, _)
EnvsWithin(ok, k) ==
    IF k <= 0 THEN {ok}
    ELSE LET fewer == EnvsWithin(ok, k - 1)
         IN fewer \cup UNION {OneMoreFault(e, ok) : e \in fewer}

-----------------------------------------------------------------------------
(* services/image.py: helpers                                              *)

\* the signed URL of a blob stored under images/<folder>/
SignedUrl(folder) == folder

\* _upload_to_gcs with the upload inside the try block: a failed upload is
\* answered with "" like a failed signing
UploadToGcsSwallowing(outcome, folder) ==
    [raised |-> FALSE,
     url |-> IF outcome = "signed" THEN SignedUrl(folder) ELSE ""]

\* _upload_to_gcs(image_data, folder, user_id): upload_from_string is outside
\* the try block, so its exception leaves the function
UploadToGcs(outcome, folder) ==
    [raised |-> outcome = "upload_error",
     url |-> IF outcome = "signed" THEN SignedUrl(folder) ELSE ""]

Max(a, b) == IF a >= b THEN a ELSE b
Min(a, b) == IF a <= b THEN a ELSE b

\* len(range(n)[start:stop]) for start >= 0, as numpy slices an axis of length n
SliceLen(start, stop, n) ==
    LET lo == Min(start, n)
        hi == IF stop < 0 THEN Max(stop + n, 0) ELSE Min(stop, n)
    IN Max(hi - lo, 0)

\* crop_img.size of cv_image[y1:y2, x1:x2] after the clamp of lines 159-161
CropSize(bbox, w, h) ==
    LET x1 == Max(0, bbox[1])
        y1 == Max(0, bbox[2])
        x2 == Min(w, bbox[3])
        y2 == Min(h, bbox[4])
    IN SliceLen(y1, y2, h) * SliceLen(x1, x2, w) * 3

-----------------------------------------------------------------------------
(* models/segmentation.py                                                  *)

\* self.model.predict(image, conf=settings.AI_CONF_THRESHOLD): result.boxes,
\* the candidates the detector keeps, in the order it found them.  The
\* detector keeps a candidate whose confidence is greater than conf.
ModelPredict(candidates) ==
    LET Kept(c) == c.conf > AI_CONF_THRESHOLD
    IN SelectSeq(candidates, Kept)

\* int(result.boxes.conf.argmax()): the first index of a maximal confidence
ArgMax(boxes) ==
    CHOOSE i \in 1..Len(boxes) :
        /\ \A j \in 1..Len(boxes) : boxes[j].conf <= boxes[i].conf
        /\ \A j \in 1..(i - 1) : boxes[j].conf < boxes[i].conf

\* predict reporting "not detected" for a weak best candidate while still
\* filling in its confidence and box
YoloPredictWeakAsMissing(candidates) ==
    LET boxes == ModelPredict(candidates) IN
    IF Len(boxes) = 0
    THEN [is_detected |-> FALSE, confidence |-> 0, bbox |-> <<>>, crop_image_url |-> NoneUrl]
    ELSE [is_detected |-> boxes[ArgMax(boxes)].conf >= 50,
          confidence |-> boxes[ArgMax(boxes)].conf,
          bbox |-> boxes[ArgMax(boxes)].xyxy,
          crop_image_url |-> NoneUrl]

YoloPredict(candidates) ==
    LET boxes == ModelPredict(candidates) IN
    IF Len(boxes) = 0
    THEN [is_detected |-> FALSE, confidence |-> 0, bbox |-> <<>>, crop_image_url |-> NoneUrl]
    ELSE [is_detected |-> TRUE,
          confidence |-> boxes[ArgMax(boxes)].conf,
          bbox |-> boxes[ArgMax(boxes)].xyxy,
          crop_image_url |-> NoneUrl]

-----------------------------------------------------------------------------
(* services/image.py: phase 1                                              *)

\* step 4 with no eye detected treated as a detection awaiting confirmation
FinalStatusWaitingWithoutEye(yolo, cropSize) ==
    IF yolo.is_detected /\ Len(yolo.bbox) > 0
    THEN IF cropSize > 0 THEN WAITING_USER ELSE FAILED
    ELSE WAITING_USER

\* step 4 without the crop_img.size > 0 test of line 166
FinalStatusIgnoringCrop(yolo, cropSize) ==
    IF yolo.is_detected /\ Len(yolo.bbox) > 0 THEN WAITING_USER ELSE FAILED

\* step 4 of run_yolo_phase: which branch sets final_status
FinalStatus(yolo, cropSize) ==
    IF yolo.is_detected /\ Len(yolo.bbox) > 0
    THEN IF cropSize > 0 THEN WAITING_USER ELSE FAILED
    ELSE FAILED

\* run_yolo_phase uploading the original before it decodes the bytes
RunYoloPhaseUploadingFirst(user_id, report_id, ts, img, boxes, env) ==
    LET orig == UploadToGcs(env.origUp, "original")
        yolo == YoloPredict(boxes)
        size == IF yolo.is_detected /\ Len(yolo.bbox) > 0
                THEN CropSize(yolo.bbox, img.w, img.h) ELSE 0
        status == FinalStatus(yolo, size)
        crop == UploadToGcs(env.cropUp, "crops")
        Raise(puts, ran) ==
            [raised |-> TRUE, report |-> <<>>, puts |-> puts, yoloRan |-> ran]
        Report(y, puts) ==
            [raised |-> FALSE,
             report |-> <<[report_id |-> report_id,
                           user_id |-> user_id,
                           timestamp |-> ts,
                           current_status |-> status,
                           original_image_url |-> orig.url,
                           yolo_result |-> <<y>>,
                           cnn_result |-> <<>>,
                           suggestion |-> <<>>]>>,
             puts |-> puts,
             yoloRan |-> TRUE]
    IN IF orig.raised THEN Raise(<<>>, FALSE)
       ELSE IF ~img.decodable THEN Raise(<<"original">>, FALSE)
       ELSE IF status # WAITING_USER THEN Report(yolo, <<"original">>)
       ELSE IF ~env.encodeOk THEN Raise(<<"original">>, TRUE)
       ELSE IF crop.raised THEN Raise(<<"original">>, TRUE)
       ELSE Report([yolo EXCEPT !.crop_image_url = crop.url], <<"original", "crops">>)

\* run_yolo_phase(user_id, image_bytes).  report_id and ts are the uuid4 and
\* the time.time() the call draws; the rest is what the call meets.  Returns
\* whether it raised, the report it returned, the folders it uploaded a blob
\* to (in order) and whether the Localizer ran.
RunYoloPhase(user_id, report_id, ts, img, boxes, env) ==
    LET orig == UploadToGcs(env.origUp, "original")
        yolo == YoloPredict(boxes)
        size == IF yolo.is_detected /\ Len(yolo.bbox) > 0
                THEN CropSize(yolo.bbox, img.w, img.h) ELSE 0
        status == FinalStatus(yolo, size)
        crop == UploadToGcs(env.cropUp, "crops")
        Raise(puts, ran) ==
            [raised |-> TRUE, report |-> <<>>, puts |-> puts, yoloRan |-> ran]
        Report(y, puts) ==
            [raised |-> FALSE,
             report |-> <<[report_id |-> report_id,
                           user_id |-> user_id,
                           timestamp |-> ts,
                           current_status |-> status,
                           original_image_url |-> orig.url,
                           yolo_result |-> <<y>>,
                           cnn_result |-> <<>>,
                           suggestion |-> <<>>]>>,
             puts |-> puts,
             yoloRan |-> TRUE]
    IN IF ~img.decodable THEN Raise(<<>>, FALSE)
       ELSE IF orig.raised THEN Raise(<<>>, FALSE)
       ELSE IF status # WAITING_USER THEN Report(yolo, <<"original">>)
       ELSE IF ~env.encodeOk THEN Raise(<<"original">>, TRUE)
       ELSE IF crop.raised THEN Raise(<<"original">>, TRUE)
       ELSE Report([yolo EXCEPT !.crop_image_url = crop.url], <<"original", "crops">>)

-----------------------------------------------------------------------------
(* models/grad_cam.py                                                      *)
(* A tensor of shape [1, Channels, 1, Positions] is a sequence of channels, *)
(* each a sequence of integer entries.  A fraction is a pair <<num, den>>;  *)
(* floating-point rounding is left out.                                    *)

Channels == 2
Positions == 2
TargetWidth == 4

FeatureValues == {-1, 2}
GradientValues == {-1, 0, 1}

Tensors(values) == [1..Channels -> [1..Positions -> values]]

ZeroTensor == [c \in 1..Channels |-> [q \in 1..Positions |-> 0]]

RECURSIVE SumTo(_, _)
SumTo(f, n) == IF n = 0 THEN 0 ELSE f[n] + SumTo(f, n - 1)

RECURSIVE MaxTo(_, _)
MaxTo(f, n) == IF n = 1 THEN f[1] ELSE Max(f[n], MaxTo(f, n - 1))

\* cv2.resize(heatmap_np, (TargetWidth, 1)) of a row of Positions = 2
\* entries, INTER_LINEAR: the weights, in quarters, of the two entries in
\* each of the four entries of the result
ResizeWeights == <<(<<4, 0>>), (<<3, 1>>), (<<1, 3>>), (<<0, 4>>)>>

\* np.uint8(255 * x) for a fraction x in 0..1
Uint8Of255Times(x) == (255 * x[1]) \div x[2]

\* generate dividing by torch.max(heatmap) whatever its value: 0 / 0 is NaN
GradCamGenerateAlwaysDividing(features, gradients) ==
    LET pooled2 == [c \in 1..Channels |-> SumTo(gradients[c], Positions)]
        heat4 == [q \in 1..Positions |->
                     Max(0, SumTo([c \in 1..Channels |-> features[c][q] * pooled2[c]],
                                  Channels))]
        max4 == MaxTo(heat4, Positions)
        heatmap == [q \in 1..Positions |->
                       IF max4 # 0 THEN <<heat4[q], max4>> ELSE "nan"]
        resized == [k \in 1..TargetWidth |->
                       IF max4 = 0 THEN "nan"
                       ELSE <<ResizeWeights[k][1] * heatmap[1][1]
                                + ResizeWeights[k][2] * heatmap[2][1],
                              4 * heatmap[1][2]>>]
    IN <<[max4 |-> max4,
          divided |-> TRUE,
          heatmap |-> heatmap,
          heatmap_color |-> [k \in 1..TargetWidth |->
                                [jet |-> IF max4 = 0 THEN "nan"
                                         ELSE Uint8Of255Times(resized[k])]]]>>

\* GradCamGenerator.generate(features, gradients, (1, TargetWidth)); None is
\* <<>>.  Returns the heat map colour image and, to state properties of the
\* steps, four times the maximum of step 4, whether step 4 divided, and the
\* heat map after step 4.  Entry k of the colour image is the JET colour of
\* a byte.
GradCamGenerate(features, gradients) ==
    IF features = <<>> \/ gradients = <<>> THEN <<>>
    ELSE
    LET \* 1. torch.mean(gradients, dim=[0, 2, 3]), times Positions
        pooled2 == [c \in 1..Channels |-> SumTo(gradients[c], Positions)]
        \* 2, 3. relu of the mean over the channels of the weighted
        \* features, times Positions * Channels
        heat4 == [q \in 1..Positions |->
                     Max(0, SumTo([c \in 1..Channels |-> features[c][q] * pooled2[c]],
                                  Channels))]
        max4 == MaxTo(heat4, Positions)
        \* 4. heatmap /= torch.max(heatmap) unless the maximum is 0
        heatmap == [q \in 1..Positions |->
                       IF max4 # 0 THEN <<heat4[q], max4>> ELSE <<heat4[q], 4>>]
        \* 5. cv2.resize
        resized == [k \in 1..TargetWidth |->
                       <<ResizeWeights[k][1] * heatmap[1][1]
                           + ResizeWeights[k][2] * heatmap[2][1],
                         4 * heatmap[1][2]>>]
    IN \* 6. np.uint8 and cv2.applyColorMap
       <<[max4 |-> max4,
          divided |-> max4 # 0,
          heatmap |-> heatmap,
          heatmap_color |-> [k \in 1..TargetWidth |->
                                [jet |-> Uint8Of255Times(resized[k])]]]>>

-----------------------------------------------------------------------------
(* models/classify.py                                                      *)

\* the dual threshold with the upper cut point exclusive
DiagnosisOfHighExclusive(dominant_prob, low, high) ==
    IF dominant_prob > high THEN DETECTED
    ELSE IF dominant_prob >= low THEN RISK
    ELSE NOT_DETECTED

\* step 5 of predict: the dual threshold
DiagnosisOf(dominant_prob, low, high) ==
    IF dominant_prob >= high THEN DETECTED
    ELSE IF dominant_prob >= low THEN RISK
    ELSE NOT_DETECTED

\* predict computing the Grad-CAM overlay whatever the status
ClassifyPredictAlwaysGradCam(p_cat, p_conj, low, high) ==
    LET dominant_prob == IF p_cat > p_conj THEN p_cat ELSE p_conj
        disease_enum == IF p_cat > p_conj THEN CATARACT ELSE CONJUNCTIVITIS
    IN [result |-> [status |-> DiagnosisOf(dominant_prob, low, high),
                    disease |-> disease_enum,
                    confidence |-> dominant_prob,
                    prob_cataract |-> p_cat,
                    prob_conjunctivitis |-> p_conj,
                    heatmap_image_url |-> NoneUrl],
        target_idx |-> IF p_cat > p_conj THEN 0 ELSE 1,
        heatmap |-> TRUE]

\* predict naming cataract when the two probabilities are equal
ClassifyPredictCataractOnTie(p_cat, p_conj, low, high) ==
    LET dominant_prob == IF p_cat >= p_conj THEN p_cat ELSE p_conj
        disease_enum == IF p_cat >= p_conj THEN CATARACT ELSE CONJUNCTIVITIS
        status == DiagnosisOf(dominant_prob, low, high)
    IN [result |-> [status |-> status,
                    disease |-> disease_enum,
                    confidence |-> dominant_prob,
                    prob_cataract |-> p_cat,
                    prob_conjunctivitis |-> p_conj,
                    heatmap_image_url |-> NoneUrl],
        target_idx |-> IF p_cat >= p_conj THEN 0 ELSE 1,
        heatmap |-> status \in {RISK, DETECTED}]

\* predict(crop_image) for sigmoid outputs p_cat, p_conj: the CnnResult, the
\* output index the Grad-CAM gradient is taken of, and whether heatmap_img is
\* an image (TRUE) or None (FALSE).  GradCamGenerator
\* .generate is called with the features and their gradient, both tensors,
\* and so returns a heat map whenever it is called.
ClassifyPredict(p_cat, p_conj, low, high) ==
    LET dominant_prob == IF p_cat > p_conj THEN p_cat ELSE p_conj
        disease_enum == IF p_cat > p_conj THEN CATARACT ELSE CONJUNCTIVITIS
        status == DiagnosisOf(dominant_prob, low, high)
    IN [result |-> [status |-> status,
                    disease |-> disease_enum,
                    confidence |-> dominant_prob,
                    prob_cataract |-> p_cat,
                    prob_conjunctivitis |-> p_conj,
                    heatmap_image_url |-> NoneUrl],
        target_idx |-> IF p_cat > p_conj THEN 0 ELSE 1,
        heatmap |-> status \in {RISK, DETECTED}]

\* the grey values of the crop predict was given, TargetWidth pixels wide
CropPixels == <<0, 200, 200, 0>>

\* cv2.addWeighted(crop_image, 0.6, raw_heatmap, 0.4, 0) when raw_heatmap is
\* not None: pixel k is 0.6 times the crop's pixel plus 0.4 times the heat
\* map's colour
BlendHeatmap(crop_image, raw_heatmap) ==
    IF raw_heatmap = <<>> THEN <<>>
    ELSE <<[k \in 1..TargetWidth |->
              [crop60 |-> crop_image[k], jet40 |-> raw_heatmap[1].heatmap_color[k].jet]]>>

\* the predict calls that can be under way at once
Calls == {1, 2}

\* the crops predict is called with, each named by the sigmoid outputs the
\* model computes for it
Crops == {<<39, 20>>, <<20, 40>>, <<75, 75>>, <<80, 10>>}

\* self.model.features(input_tensor): the feature tensor of a crop
FeaturesOf(crop) == <<"features", crop>>

\* the gradient of outputs[0, target_idx] in the graph built for a crop
GradientOf(crop, target_idx) == <<"gradient", crop, target_idx>>

\* the local variables of a predict call: where it is, its crop_image, its
\* features tensor and that tensor's .grad (None is <<>>), the CnnResult it
\* has computed, and the tensors it handed to GradCamGenerator.generate
IdleFrame ==
    [pc |-> "idle", crop |-> <<>>, features |-> <<>>, grad |-> <<>>,
     p |-> <<>>, generated |-> <<>>]

\* reading the gradient from the .grad of the shared model's parameters
GradientsFromParameters(cl, c) ==
    IF Len(cl.paramGrad) = 0 THEN <<>> ELSE cl.paramGrad[Len(cl.paramGrad)]

\* line 98: gradients = features.grad, features being the call's own tensor
GradientsRead(cl, c) == cl.frame[c].grad

-----------------------------------------------------------------------------
(* services/image.py: phase 2                                              *)

\* run_cnn_phase(report) when the classifier's sigmoid outputs are probs.
\* Returns whether it raised, the report it returned, the folders it
\* uploaded a blob to, whether ai_manager.cnn.predict was called, the
\* CnnResult that call returned and the output index it took the gradient of.
RunCnnPhase(report, low, high, probs, env) ==
    LET p == ClassifyPredict(probs[1], probs[2], low, high)
        hm == UploadToGcs(env.hmUp, "heatmaps")
        cnn1 == IF p.heatmap THEN [p.result EXCEPT !.heatmap_image_url = hm.url]
                ELSE p.result
        hmPuts == IF p.heatmap THEN <<"heatmaps">> ELSE <<>>
        charted == cnn1.status # NOT_DETECTED
        chartPuts == IF charted THEN <<"charts">> ELSE <<>>
        Raise(puts, ran, cnn) ==
            [raised |-> TRUE, report |-> <<>>, puts |-> puts, cnnRan |-> ran, cnn |-> cnn,
             target_idx |-> p.target_idx]
    IN IF Len(report.yolo_result) = 0 \/ Falsy(report.yolo_result[1].crop_image_url)
       THEN Raise(<<>>, FALSE, <<>>)
       ELSE IF env.cropDl = "http_error" THEN Raise(<<>>, FALSE, <<>>)
       \* a crop that did not decode is None: predict is called and raises
       ELSE IF env.cropDl = "undecodable" \/ ~env.predOk THEN Raise(<<>>, TRUE, <<>>)
       ELSE IF p.heatmap /\ ~env.hmEnc THEN Raise(<<>>, TRUE, <<p.result>>)
       ELSE IF p.heatmap /\ hm.raised THEN Raise(<<>>, TRUE, <<p.result>>)
       \* requests.get of an empty URL raises
       ELSE IF report.original_image_url = "" \/ env.origDl # "image"
            THEN Raise(hmPuts, TRUE, <<cnn1>>)
       ELSE IF ~env.boxEnc THEN Raise(hmPuts, TRUE, <<cnn1>>)
       ELSE IF UploadToGcs(env.boxUp, "boxed").raised THEN Raise(hmPuts, TRUE, <<cnn1>>)
       \* line 320: report.original_boxed_url = <the URL just made>
       ELSE IF SetAttrRaises(DiagnosticReportFields, "original_boxed_url")
            THEN Raise(hmPuts \o <<"boxed">>, TRUE, <<cnn1>>)
       ELSE IF charted /\ ~env.chartOk THEN Raise(hmPuts \o <<"boxed">>, TRUE, <<cnn1>>)
       ELSE IF charted /\ UploadToGcs(env.chartUp, "charts").raised
            THEN Raise(hmPuts \o <<"boxed">>, TRUE, <<cnn1>>)
       \* line 333: cnn_result_obj.chart_image_url = <the URL just made>
       ELSE IF charted /\ SetAttrRaises(CnnResultFields, "chart_image_url")
            THEN Raise(hmPuts \o <<"boxed", "charts">>, TRUE, <<cnn1>>)
       ELSE [raised |-> FALSE,
             report |-> <<[report EXCEPT !.cnn_result = <<cnn1>>,
                                         !.current_status = COMPLETED]>>,
             puts |-> hmPuts \o <<"boxed">> \o chartPuts,
             cnnRan |-> TRUE,
             cnn |-> <<cnn1>>,
             target_idx |-> p.target_idx]

-----------------------------------------------------------------------------
(* services/database.py                                                    *)

\* report.model_dump(mode='json'): enum members become their values
ModelDump(report) ==
    [report EXCEPT
        !.current_status = EnumValue(@),
        !.cnn_result = IF Len(@) = 0 THEN <<>>
                       ELSE <<[@[1] EXCEPT !.status = EnumValue(@),
                                           !.disease = EnumValue(@)]>>]

\* a load that validates current_status only and leaves the nested
\* cnn_result as the stored dict
ValidateTopLevelOnly(data) ==
    [data EXCEPT !.current_status = EnumOf(@)]

\* DiagnosticReport(**data): enum values are validated back to members
Validate(data) ==
    [data EXCEPT
        !.current_status = EnumOf(@),
        !.cnn_result = IF Len(@) = 0 THEN <<>>
                       ELSE <<[@[1] EXCEPT !.status = EnumOf(@),
                                           !.disease = EnumOf(@)]>>]

\* save_report writing every report to one and the same document
SaveReportSingleDocument(st, report, dbOk) ==
    IF dbOk THEN [st EXCEPT ![1] = <<ModelDump(report)>>] ELSE st

\* save_report: set(report_dict, merge=True) of a dump that carries every
\* field of the document; a failing write is caught and answered with False
SaveReport(st, report, dbOk) ==
    IF dbOk THEN [st EXCEPT ![report.report_id] = <<ModelDump(report)>>] ELSE st

\* get_report falling back to some stored document when the one asked for is
\* missing
GetReportOrAnother(st, report_id, dbOk) ==
    IF ~dbOk THEN <<>>
    ELSE IF report_id \in DOMAIN st /\ Len(st[report_id]) = 1
    THEN <<Validate(st[report_id][1])>>
    ELSE IF \E r \in DOMAIN st : Len(st[r]) = 1
    THEN <<Validate(st[CHOOSE r \in DOMAIN st : Len(st[r]) = 1][1])>>
    ELSE <<>>

\* get_report: None when the document is missing or the read fails
GetReport(st, report_id, dbOk) ==
    IF ~dbOk \/ report_id \notin DOMAIN st THEN <<>>
    ELSE IF Len(st[report_id]) = 0 THEN <<>>
    ELSE <<Validate(st[report_id][1])>>

\* the query ordered by timestamp ascending: the oldest documents first
GetReportsByUserOldestFirst(st, user_id, limit, dbOk) ==
    LET mine == {r \in DOMAIN st : Len(st[r]) = 1 /\ st[r][1].user_id = user_id}
        Before(a, b) ==
            \/ st[a][1].timestamp < st[b][1].timestamp
            \/ st[a][1].timestamp = st[b][1].timestamp /\ a < b
        sorted == CHOOSE q \in [1..Cardinality(mine) -> mine] :
                    \A i, j \in 1..Cardinality(mine) : i < j => Before(q[i], q[j])
    IN IF ~dbOk THEN <<>>
       ELSE [i \in 1..Min(limit, Cardinality(mine)) |-> Validate(st[sorted[i]][1])]

\* get_reports_by_user: the user's documents, newest first (equal timestamps
\* in descending document id), at most `limit` of them; [] when the query fails
GetReportsByUser(st, user_id, limit, dbOk) ==
    LET mine == {r \in DOMAIN st : Len(st[r]) = 1 /\ st[r][1].user_id = user_id}
        Before(a, b) ==
            \/ st[a][1].timestamp > st[b][1].timestamp
            \/ st[a][1].timestamp = st[b][1].timestamp /\ a > b
        sorted == CHOOSE q \in [1..Cardinality(mine) -> mine] :
                    \A i, j \in 1..Cardinality(mine) : i < j => Before(q[i], q[j])
    IN IF ~dbOk THEN <<>>
       ELSE [i \in 1..Min(limit, Cardinality(mine)) |-> Validate(st[sorted[i]][1])]

-----------------------------------------------------------------------------
(* services/line.py                                                        *)

\* The replies a handler attempts.  `chain` lists the reply the code sends
\* first and then the reply each enclosing except clause sends when the one
\* before it raised; with the LINE API down every reply_message call raises.
Attempts(chain, lineOk) == IF lineOk THEN <<Head(chain)>> ELSE chain

\* send_crop_confirmation(reply_token, report), then the except clause of
\* handle_image_message
CropConfirmationChain(report, tplOk) ==
    IF Len(report.yolo_result) = 0 \/ Falsy(report.yolo_result[1].crop_image_url)
    THEN <<"no_crop", "image_error">>
    ELSE IF tplOk THEN <<"crop_card", "crop_fallback", "image_error">>
    ELSE <<"crop_fallback", "image_error">>

\* send_analysis_result(reply_token, report), without the caller's except
AnalysisResultChain(report, tplOk) ==
    IF Len(report.cnn_result) = 0 THEN <<"no_result">>
    ELSE IF tplOk THEN <<"result_card", "result_error">>
    ELSE <<"result_error">>

-----------------------------------------------------------------------------
(* The state                                                               *)

\* the record of a handled event
Event(kind, report_id) ==
    [kind |-> kind,            \* image, confirm, view, history or none
     report_id |-> report_id,  \* the report the event is about
     raised |-> FALSE,         \* the phase the handler ran raised
     report |-> <<>>,          \* the report that phase returned
     cnn |-> <<>>,             \* the CnnResult the classifier returned
     puts |-> <<>>,            \* folders a blob was uploaded to, in order
     met |-> <<>>,             \* an image event: the picture, the YOLO boxes
                               \* and the outcome of each call the handler made;
                               \* a confirmation: the classifier's outputs
     llm |-> <<>>,             \* the prompts handed to the LLM, in order
     replies |-> <<>>]         \* the replies attempted, in order

InitWith(configs) ==
    /\ settings \in configs
    /\ store = [r \in ReportIds |-> <<>>]
    /\ gcs = {}
    /\ yoloCalls = [r \in ReportIds |-> 0]
    /\ cnnCalls = [r \in ReportIds |-> 0]
    /\ nextId = 1
    /\ clock = 0
    /\ faults = 0
    /\ classifier = [paramGrad |-> <<>>, frame |-> [c \in Calls |-> IdleFrame]]
    /\ user_rag_state = [u \in Users |-> FALSE]
    /\ user_survey_state = [u \in Users |-> <<>>]
    /\ lastEvent = Event("none", GhostId)

Init == InitWith({DefaultSettings})

\* the bucket after the uploads of one handler
Uploaded(bucket, puts) == bucket \cup {puts[i] : i \in 1..Len(puts)}

-----------------------------------------------------------------------------
(* main.py: the handlers                                                   *)

\* an id generator that hands out the same id again
NewReportIdRepeating(next) == 1

\* uuid.uuid4(): an id never drawn before
NewReportId(next) == next

\* handle_image_message(event), the event from one of `users` and the YOLO
\* run on its picture giving one of `boxLists`
HandleImageMessage(users, boxLists) ==
    /\ nextId <= MaxImages
    /\ \E user_id \in users, img \in Images, boxes \in boxLists,
          env \in EnvsWithin(ImageEnvOk, MaxFaults - faults) :
        LET report_id == NewReportId(nextId)
            p1 == RunYoloPhase(user_id, report_id, clock, img, boxes, env)
        IN /\ faults' = faults + FaultsIn(env, ImageEnvOk)
           /\ IF ~env.contentOk
              THEN \* get_message_content raised: no phase ran, no uuid drawn
                   /\ lastEvent' = [Event("image", GhostId) EXCEPT
                                       !.raised = TRUE,
                                       !.met = [img |-> img, boxes |-> boxes, env |-> env],
                                       !.replies = <<"image_error">>]
                   /\ UNCHANGED <<store, gcs, yoloCalls, nextId>>
              ELSE /\ nextId' = nextId + 1
                   /\ gcs' = Uploaded(gcs, p1.puts)
                   /\ yoloCalls' = IF p1.yoloRan
                                   THEN [yoloCalls EXCEPT ![report_id] = @ + 1]
                                   ELSE yoloCalls
                   /\ IF p1.raised
                      THEN /\ store' = store
                           /\ lastEvent' = [Event("image", report_id) EXCEPT
                                               !.raised = TRUE,
                                               !.met = [img |-> img, boxes |-> boxes,
                                                        env |-> env],
                                               !.puts = p1.puts,
                                               !.replies = <<"image_error">>]
                      ELSE LET report == p1.report[1] IN
                           /\ store' = SaveReport(store, report, env.dbOk)
                           /\ lastEvent' =
                                [Event("image", report_id) EXCEPT
                                    !.report = p1.report,
                                    !.met = [img |-> img, boxes |-> boxes, env |-> env],
                                    !.puts = p1.puts,
                                    !.replies =
                                        IF report.yolo_result[1].is_detected
                                        THEN Attempts(CropConfirmationChain(report, env.tplOk),
                                                      env.lineOk)
                                        ELSE Attempts(<<"retake", "image_error">>, env.lineOk)]
    /\ UNCHANGED <<settings, cnnCalls, clock, classifier,
                   user_rag_state, user_survey_state>>

\* an except clause that marks the report FAILED in the record store
StoreAfterCnnErrorMarkingFailed(st, report) ==
    SaveReport(st, [report EXCEPT !.current_status = FAILED], TRUE)

\* the except clause of the confirm_cnn branch: it logs and replies, and
\* leaves the record store alone
StoreAfterCnnError(st, report) == st

\* what a classifier run that returned was given and chose: the sigmoid
\* outputs and the output index of the Grad-CAM gradient
Predicted(p2, probs) ==
    IF Len(p2.cnn) = 1 THEN [probs |-> probs, target_idx |-> p2.target_idx] ELSE <<>>

\* handle_postback(event) for data "action=confirm_cnn&report_id=<report_id>",
\* the classifier's sigmoid outputs on the crop being one of `probPairs`
HandleConfirmCnn(probPairs) ==
    /\ \E report_id \in ReportIds \cup {GhostId}, probs \in probPairs,
          env \in EnvsWithin(CnnEnvOk, MaxFaults - faults) :
        LET loaded == GetReport(store, report_id, env.dbGet)
        IN /\ report_id \in ReportIds => cnnCalls[report_id] < MaxCnnCalls
           /\ faults' = faults + FaultsIn(env, CnnEnvOk)
           /\ IF Len(loaded) = 0
              THEN /\ lastEvent' = [Event("confirm", report_id) EXCEPT
                                       !.replies = Attempts(<<"not_found", "cnn_error">>,
                                                            env.lineOk)]
                   /\ UNCHANGED <<store, gcs, cnnCalls>>
              ELSE LET p2 == RunCnnPhase(loaded[1], settings.AI_THRESH_LOW,
                                         settings.AI_THRESH_HIGH, probs, env)
                   IN /\ gcs' = Uploaded(gcs, p2.puts)
                      /\ cnnCalls' = IF p2.cnnRan
                                     THEN [cnnCalls EXCEPT ![report_id] = @ + 1]
                                     ELSE cnnCalls
                      /\ IF p2.raised
                         THEN /\ store' = StoreAfterCnnError(store, loaded[1])
                              /\ lastEvent' = [Event("confirm", report_id) EXCEPT
                                                  !.raised = TRUE,
                                                  !.cnn = p2.cnn,
                                                  !.met = Predicted(p2, probs),
                                                  !.puts = p2.puts,
                                                  !.replies = <<"cnn_error">>]
                         ELSE /\ store' = SaveReport(store, p2.report[1], env.dbSave)
                              /\ lastEvent' =
                                   [Event("confirm", report_id) EXCEPT
                                       !.report = p2.report,
                                       !.cnn = p2.cnn,
                                       !.met = Predicted(p2, probs),
                                       !.puts = p2.puts,
                                       !.replies =
                                           Attempts(AnalysisResultChain(p2.report[1], env.tplOk)
                                                    \o <<"cnn_error">>, env.lineOk)]
    /\ UNCHANGED <<settings, yoloCalls, nextId, clock, classifier,
                   user_rag_state, user_survey_state>>

\* a view_report that runs the classifier again for the report it shows
HandleViewReportRerunning ==
    /\ \E report_id \in ReportIds, env \in EnvsWithin(ReadEnvOk, MaxFaults - faults) :
        LET loaded == GetReport(store, report_id, env.dbGet)
        IN /\ cnnCalls[report_id] < MaxCnnCalls
           /\ faults' = faults + FaultsIn(env, ReadEnvOk)
           /\ cnnCalls' = IF Len(loaded) = 1
                           THEN [cnnCalls EXCEPT ![report_id] = @ + 1] ELSE cnnCalls
           /\ lastEvent' = [Event("view", report_id) EXCEPT
                               !.replies =
                                   IF Len(loaded) = 0 THEN <<"view_not_found">>
                                   ELSE Attempts(AnalysisResultChain(loaded[1], env.tplOk),
                                                 env.lineOk)]
    /\ UNCHANGED <<settings, store, gcs, yoloCalls, nextId, clock, classifier,
                   user_rag_state, user_survey_state>>

\* handle_postback(event) for data "action=view_report&report_id=<report_id>"
HandleViewReport ==
    /\ \E report_id \in ReportIds \cup {GhostId},
          env \in EnvsWithin(ReadEnvOk, MaxFaults - faults) :
        LET loaded == GetReport(store, report_id, env.dbGet)
        IN /\ faults' = faults + FaultsIn(env, ReadEnvOk)
           /\ lastEvent' = [Event("view", report_id) EXCEPT
                               !.replies =
                                   IF Len(loaded) = 0 THEN <<"view_not_found">>
                                   ELSE Attempts(AnalysisResultChain(loaded[1], env.tplOk),
                                                 env.lineOk)]
    /\ UNCHANGED <<settings, store, gcs, yoloCalls, cnnCalls, nextId, clock, classifier,
                   user_rag_state, user_survey_state>>

\* handle_text_message(event) for one of the history commands
HandleHistory(users) ==
    /\ \E user_id \in users, env \in EnvsWithin(ReadEnvOk, MaxFaults - faults) :
        LET reports == GetReportsByUser(store, user_id, 5, env.dbGet)
        IN /\ faults' = faults + FaultsIn(env, ReadEnvOk)
           /\ lastEvent' = [Event("history", GhostId) EXCEPT
                               !.report = [i \in 1..Len(reports) |-> reports[i].report_id],
                               !.replies =
                                   IF env.tplOk
                                   THEN Attempts(<<"history_list", "history_error">>, env.lineOk)
                                   ELSE <<"history_error">>]
    /\ UNCHANGED <<settings, store, gcs, yoloCalls, cnnCalls, nextId, clock, classifier,
                   user_rag_state, user_survey_state>>

\* a clock whose advance expires the reports that wait for a confirmation
TickExpiring ==
    /\ clock < MaxClock
    /\ clock' = clock + 1
    /\ store' = [r \in ReportIds |->
                    IF Len(store[r]) = 1 /\ store[r][1].current_status = EnumValue(WAITING_USER)
                    THEN <<[store[r][1] EXCEPT !.current_status = EnumValue(FAILED)]>>
                    ELSE store[r]]
    /\ UNCHANGED <<settings, gcs, yoloCalls, cnnCalls, nextId, faults, lastEvent, classifier,
                   user_rag_state, user_survey_state>>

\* time passes between two events
Tick ==
    /\ clock < MaxClock
    /\ clock' = clock + 1
    /\ UNCHANGED <<settings, store, gcs, yoloCalls, cnnCalls, nextId, faults, lastEvent, classifier,
                   user_rag_state, user_survey_state>>

-----------------------------------------------------------------------------
(* main.py: the chat, the health education consultation, the questionnaires *)

\* the longest text the general chat hands to the LLM (line 461)
CHAT_TEXT_LIMIT == 10

\* event.message.text.strip() of n characters that is none of the commands
TextOfLen(n) == [i \in 1..n |-> "c"]

FreeTexts == {TextOfLen(CHAT_TEXT_LIMIT), TextOfLen(CHAT_TEXT_LIMIT + 1)}

\* What a chat handler meets: the LLM API, the loading of a questionnaire or
\* template file, the LINE reply.
ChatEnvOk == [llmOk |-> TRUE, fileOk |-> TRUE, lineOk |-> TRUE]

\* event.postback.data, written as data.split('&') with each item split at
\* '=': "camera" is one item of one part, "action=retry" one item of two
DataMenu == <<(<<"menu">>)>>
DataCamera == <<(<<"camera">>)>>
DataCataractQues == <<(<<"cataract_ques">>)>>
DataAskLlm == <<(<<"action", "ask_llm">>)>>
DataRetry == <<(<<"action", "retry">>)>>

\* the data send_question puts behind a quick-reply button:
\* "<answer>&survey=<survey>&next=<next>"
DataAnswer(question, answer, next) ==
    <<(<<question, answer>>), (<<"survey", "cataract">>), (<<"next", next>>)>>

ChatPostbacks ==
    {DataMenu, DataCamera, DataCataractQues, DataAskLlm, DataRetry,
     DataAnswer("Q1", "yes", "Q2"), DataAnswer("Q2", "no", "result")}

\* dict(x.split('=') for x in data.split('&')) raises ValueError when an
\* item does not split into exactly two parts
ParseRaises(data) == \E i \in 1..Len(data) : Len(data[i]) # 2

\* the dict it builds otherwise: the last value given for each key
ParseParams(data) ==
    [k \in {data[i][1] : i \in 1..Len(data)} |->
        data[CHOOSE i \in 1..Len(data) :
                /\ data[i][1] = k
                /\ \A j \in (i + 1)..Len(data) : data[j][1] # k][2]]

\* params.get(key)
ParamsGet(params, key) == IF key \in DOMAIN params THEN params[key] ELSE "<None>"

\* {k: v for k, v in params.items() if k not in ["survey", "next"]}
AnswerData(params) == [k \in DOMAIN params \ {"survey", "next"} |-> params[k]]

\* llm_service.generate_response never raises: it answers, or returns its
\* apology when the API call fails
LlmReply(llmOk) == IF llmOk THEN "llm_answer" ELSE "llm_apology"

\* the consultation flag deleted only once the reply has been sent
RagStateClearedAfterReply(state, user_id, replied) ==
    IF replied THEN [state EXCEPT ![user_id] = FALSE] ELSE state

\* line 418: del user_rag_state[user_id], the first statement of the try
RagStateAfterConsultation(state, user_id, replied) ==
    [state EXCEPT ![user_id] = FALSE]

\* handle_text_message(event) for the start-detection command of the rich
\* menu (lines 107-111)
HandleMenuCommand(users) ==
    /\ \E user_id \in users, env \in EnvsWithin(ChatEnvOk, MaxFaults - faults) :
          /\ faults' = faults + FaultsIn(env, ChatEnvOk)
          /\ lastEvent' = [Event("text", GhostId) EXCEPT
                              !.met = [user_id |-> user_id, command |-> "start_detection"],
                              !.raised = ~env.lineOk,
                              !.replies = <<"photo_prompt">>]
    /\ UNCHANGED <<settings, store, gcs, yoloCalls, cnnCalls, nextId, clock, classifier,
                   user_rag_state, user_survey_state>>

\* handle_text_message(event) for a command that starts a questionnaire:
\* the two that start text_mode (lines 233, 324) and the cataract and the
\* conjunctivitis test (line 290)
HandleSurveyStart(users) ==
    /\ \E user_id \in users, survey_id \in {"text_mode", "cataract", "conjunctivitis"},
          env \in EnvsWithin(ChatEnvOk, MaxFaults - faults) :
          /\ faults' = faults + FaultsIn(env, ChatEnvOk)
          /\ IF ~env.fileOk
             THEN \* _load_json returned {}: the reply, and the except clause's
                  /\ lastEvent' = [Event("text", GhostId) EXCEPT
                                      !.met = [user_id |-> user_id, command |-> survey_id],
                                      !.raised = ~env.lineOk,
                                      !.replies = Attempts(<<"no_questionnaire",
                                                             "start_error">>, env.lineOk)]
                  /\ UNCHANGED user_survey_state
             ELSE \* send_question catches what its reply raises
                  /\ user_survey_state' =
                        [user_survey_state EXCEPT
                            ![user_id] = <<[current_survey |-> survey_id, answers |-> <<>>]>>]
                  /\ lastEvent' = [Event("text", GhostId) EXCEPT
                                      !.met = [user_id |-> user_id, command |-> survey_id],
                                      !.replies = <<"question">>]
    /\ UNCHANGED <<settings, store, gcs, yoloCalls, cnnCalls, nextId, clock, classifier,
                   user_rag_state>>

\* handle_text_message(event) for a text that is none of the commands:
\* lines 414-471
HandleFreeText(users, texts) ==
    /\ \E user_id \in users, text \in texts,
          env \in EnvsWithin(ChatEnvOk, MaxFaults - faults) :
          /\ faults' = faults + FaultsIn(env, ChatEnvOk)
          /\ IF user_rag_state[user_id]
             THEN /\ user_rag_state' =
                        RagStateAfterConsultation(user_rag_state, user_id, env.lineOk)
                  /\ lastEvent' =
                        [Event("text", GhostId) EXCEPT
                            !.met = [user_id |-> user_id, command |-> "none", text |-> text],
                            !.raised = ~env.lineOk,
                            !.llm = <<[task |-> "rag_consultation", text |-> text]>>,
                            !.replies = Attempts(<<LlmReply(env.llmOk), "rag_error">>,
                                                 env.lineOk)]
             ELSE IF Len(text) > CHAT_TEXT_LIMIT
             THEN /\ UNCHANGED user_rag_state
                  /\ lastEvent' = [Event("text", GhostId) EXCEPT
                                      !.met = [user_id |-> user_id, command |-> "none", text |-> text],
                                      !.raised = ~env.lineOk,
                                      !.replies = <<"length_warning">>]
             ELSE /\ UNCHANGED user_rag_state
                  /\ lastEvent' =
                        [Event("text", GhostId) EXCEPT
                            !.met = [user_id |-> user_id, command |-> "none", text |-> text],
                            !.raised = ~env.lineOk,
                            !.llm = <<[task |-> "chat", text |-> text]>>,
                            !.replies = Attempts(<<LlmReply(env.llmOk), "chat_error">>,
                                                 env.lineOk)]
    /\ UNCHANGED <<settings, store, gcs, yoloCalls, cnnCalls, nextId, clock, classifier,
                   user_survey_state>>

\* what a postback handler did: the reply attempts, the prompts handed to
\* the LLM, the two dictionaries after it, and whether it raised
PostbackOutcome(replies, llm, rag, survey, raised) ==
    [replies |-> replies, llm |-> llm, rag |-> rag, survey |-> survey, raised |-> raised]

\* the branch for a questionnaire answer, lines 577-639
SurveyAnswer(user_id, params, env) ==
    LET survey_id == ParamsGet(params, "survey")
        next_q_id == ParamsGet(params, "next")
        entry == IF user_survey_state[user_id] = <<>>
                 THEN [current_survey |-> survey_id, answers |-> <<>>]
                 ELSE user_survey_state[user_id][1]
        answered == [entry EXCEPT !.answers = Append(@, AnswerData(params))]
        kept == [user_survey_state EXCEPT ![user_id] = <<answered>>]
    IN IF next_q_id = "result"
       THEN \* the summary, the except clause's reply, then the deletion
            PostbackOutcome(
                Attempts(<<LlmReply(env.llmOk), "summary_error">>, env.lineOk),
                <<[task |-> "questionnaire_summary", survey_id |-> survey_id,
                   answers |-> answered.answers]>>,
                user_rag_state,
                IF env.lineOk THEN [user_survey_state EXCEPT ![user_id] = <<>>] ELSE kept,
                ~env.lineOk)
       ELSE IF env.fileOk
       THEN PostbackOutcome(<<"question">>, <<>>, user_rag_state, kept, FALSE)
       ELSE PostbackOutcome(
                Attempts(<<"no_next_question", "survey_read_error">>, env.lineOk),
                <<>>, user_rag_state, kept, ~env.lineOk)

\* handle_postback(event) for data that is neither a confirm_cnn nor a
\* view_report postback: every other branch of lines 505-702
PostbackData(user_id, data, env) ==
    LET Only(reply) == PostbackOutcome(<<reply>>, <<>>, user_rag_state, user_survey_state,
                                       ~env.lineOk)
        Silent == PostbackOutcome(<<>>, <<>>, user_rag_state, user_survey_state, FALSE)
        params == ParseParams(data)
        action == ParamsGet(params, "action")
    IN IF data = DataMenu
       THEN \* lines 511-522
            IF env.fileOk
            THEN PostbackOutcome(Attempts(<<"education_menu", "menu_error">>, env.lineOk),
                                 <<>>, user_rag_state, user_survey_state, ~env.lineOk)
            ELSE Only("menu_error")
       ELSE IF ParseRaises(data)
       THEN \* lines 525-529: logged, and the handler returns
            Silent
       ELSE IF action = "ask_llm"
       THEN PostbackOutcome(<<"rag_invite">>, <<>>,
                            [user_rag_state EXCEPT ![user_id] = TRUE],
                            user_survey_state, ~env.lineOk)
       ELSE IF "survey" \in DOMAIN params /\ "next" \in DOMAIN params
       THEN SurveyAnswer(user_id, params, env)
       ELSE IF action = "retry"
       THEN Only("retake_prompt")
       ELSE IF data = DataMenu
       THEN \* lines 649-657: the except clause only logs
            IF env.fileOk THEN PostbackOutcome(<<"education_menu">>, <<>>, user_rag_state,
                                               user_survey_state, FALSE)
            ELSE Silent
       ELSE IF data = DataCamera
       THEN Only("photo_prompt")
       ELSE IF data = DataCataractQues
       THEN \* lines 664-682
            IF env.fileOk
            THEN PostbackOutcome(<<"question">>, <<>>, user_rag_state,
                                 [user_survey_state EXCEPT
                                     ![user_id] = <<[current_survey |-> "cataract",
                                                     answers |-> <<>>]>>],
                                 FALSE)
            ELSE PostbackOutcome(<<"questionnaire_maintenance">>, <<>>, user_rag_state,
                                 user_survey_state, FALSE)
       ELSE Silent

HandlePostbackData(users, datas) ==
    /\ \E user_id \in users, data \in datas,
          env \in EnvsWithin(ChatEnvOk, MaxFaults - faults) :
          LET done == PostbackData(user_id, data, env)
          IN /\ \A i \in 1..Len(done.llm) : Len(done.llm[i].answers) <= MaxAnswers
             /\ faults' = faults + FaultsIn(env, ChatEnvOk)
             /\ user_rag_state' = done.rag
             /\ user_survey_state' = done.survey
             /\ \A u \in Users : Len(done.survey[u]) = 1 =>
                                      Len(done.survey[u][1].answers) <= MaxAnswers
             /\ lastEvent' = [Event("postback", GhostId) EXCEPT
                                 !.met = [user_id |-> user_id, data |-> data],
                                 !.raised = done.raised,
                                 !.llm = done.llm,
                                 !.replies = done.replies]
    /\ UNCHANGED <<settings, store, gcs, yoloCalls, cnnCalls, nextId, clock, classifier>>

\* predict(crop_image), call c, lines 55-63: preprocessing, then
\* self.model.zero_grad() clears the .grad of the shared parameters
PredictZeroGrad(c) ==
    /\ classifier.frame[c].pc = "idle"
    /\ \E crop \in Crops :
          classifier' = [classifier EXCEPT
                            !.paramGrad = <<>>,
                            !.frame[c] = [IdleFrame EXCEPT !.pc = "zeroed", !.crop = crop]]
    /\ UNCHANGED <<settings, store, gcs, yoloCalls, cnnCalls, nextId, clock, faults,
                   lastEvent,
                   user_rag_state, user_survey_state>>

\* lines 64-93: the forward pass into the call's own features tensor, the
\* sigmoid outputs and the status
PredictForward(c) ==
    /\ classifier.frame[c].pc = "zeroed"
    /\ LET f == classifier.frame[c]
           p == ClassifyPredict(f.crop[1], f.crop[2], settings.AI_THRESH_LOW,
                                settings.AI_THRESH_HIGH)
       IN classifier' = [classifier EXCEPT
                            !.frame[c] = [f EXCEPT
                                             !.pc = IF p.heatmap THEN "parsed" ELSE "returning",
                                             !.features = FeaturesOf(f.crop),
                                             !.p = p]]
    /\ UNCHANGED <<settings, store, gcs, yoloCalls, cnnCalls, nextId, clock, faults,
                   lastEvent,
                   user_rag_state, user_survey_state>>

\* line 97: outputs[0, target_idx].backward() fills features.grad, which
\* retain_grad keeps, and adds to the .grad of the shared parameters
PredictBackward(c) ==
    /\ classifier.frame[c].pc = "parsed"
    /\ LET f == classifier.frame[c]
           g == GradientOf(f.crop, f.p.target_idx)
       IN classifier' = [classifier EXCEPT
                            !.paramGrad = Append(@, g),
                            !.frame[c] = [f EXCEPT !.pc = "backed", !.grad = g]]
    /\ UNCHANGED <<settings, store, gcs, yoloCalls, cnnCalls, nextId, clock, faults,
                   lastEvent,
                   user_rag_state, user_survey_state>>

\* lines 98-108: gradients = features.grad, generate and the blend
PredictGenerate(c) ==
    /\ classifier.frame[c].pc = "backed"
    /\ LET f == classifier.frame[c]
       IN classifier' = [classifier EXCEPT
                            !.frame[c] = [f EXCEPT
                                             !.pc = "returning",
                                             !.generated =
                                                 <<[features |-> f.features,
                                                    gradients |-> GradientsRead(classifier, c)]>>]]
    /\ UNCHANGED <<settings, store, gcs, yoloCalls, cnnCalls, nextId, clock, faults,
                   lastEvent,
                   user_rag_state, user_survey_state>>

\* lines 110-117: the call returns and its locals are gone
PredictReturn(c) ==
    /\ classifier.frame[c].pc = "returning"
    /\ classifier' = [classifier EXCEPT !.frame[c] = IdleFrame]
    /\ UNCHANGED <<settings, store, gcs, yoloCalls, cnnCalls, nextId, clock, faults,
                   lastEvent,
                   user_rag_state, user_survey_state>>

\* Step 6 of predict(crop_image) on its own, lines 95-108, for a status of
\* RISK or DETECTED: backward() leaves in features.grad one of the gradient
\* tensors, generate makes the heat map and addWeighted blends it.
PredictGradCam ==
    /\ \E features \in Tensors(FeatureValues), gradients \in Tensors(GradientValues) :
          LET raw_heatmap == GradCamGenerate(features, gradients)
          IN lastEvent' = [Event("gradcam", GhostId) EXCEPT
                              !.met = [features |-> features, gradients |-> gradients],
                              !.cnn = raw_heatmap,
                              !.report = BlendHeatmap(CropPixels, raw_heatmap)]
    /\ UNCHANGED <<settings, store, gcs, yoloCalls, cnnCalls, nextId, clock, faults, classifier,
                   user_rag_state, user_survey_state>>

\* One user, the clock standing still, the default thresholds.
Next ==
    \/ HandleImageMessage(OneUser, BoxLists)
    \/ HandleConfirmCnn(ProbPairs)
    \/ HandleViewReport
    \/ HandleHistory(OneUser)

Spec == Init /\ [][Next]_vars

\* The classifier on every pair of sigmoid outputs, under the default
\* thresholds and under thresholds taken from the environment.
InitThresholds == InitWith({DefaultSettings} \cup EnvSettings)

NextThresholds ==
    \/ HandleImageMessage(OneUser, {<<[conf |-> 30, xyxy |-> BoxInside]>>})
    \/ HandleConfirmCnn(AllProbPairs)

SpecThresholds == InitThresholds /\ [][NextThresholds]_vars

\* Two users uploading pictures while the clock advances, and asking for
\* their history.
NextHistory ==
    \/ HandleImageMessage(Users, {<<[conf |-> 30, xyxy |-> BoxInside]>>})
    \/ HandleHistory(Users)
    \/ Tick

SpecHistory == Init /\ [][NextHistory]_vars

\* Two users, each event of any of the reports, while the clock advances.
NextTwoUsers ==
    \/ HandleImageMessage(Users, {<<>>, <<[conf |-> 30, xyxy |-> BoxInside]>>})
    \/ HandleConfirmCnn({<<75, 75>>})
    \/ HandleViewReport
    \/ HandleHistory(Users)
    \/ Tick

SpecTwoUsers == Init /\ [][NextTwoUsers]_vars

\* The bot started under any environment, one picture and its confirmations.
InitAnySettings == InitWith(AnySettings)

NextAnySettings ==
    \/ HandleImageMessage(OneUser, {<<[conf |-> 30, xyxy |-> BoxInside]>>})
    \/ HandleConfirmCnn(ProbPairs)

SpecAnySettings == InitAnySettings /\ [][NextAnySettings]_vars

\* Two users chatting, consulting and answering questionnaires.
NextChat ==
    \/ HandleMenuCommand(Users)
    \/ HandleSurveyStart(Users)
    \/ HandleFreeText(Users, FreeTexts)
    \/ HandlePostbackData(Users, ChatPostbacks)

SpecChat == Init /\ [][NextChat]_vars

\* Two predict calls on the shared model, their steps interleaved.
NextPredict ==
    \/ \E c \in Calls : PredictZeroGrad(c)
    \/ \E c \in Calls : PredictForward(c)
    \/ \E c \in Calls : PredictBackward(c)
    \/ \E c \in Calls : PredictGenerate(c)
    \/ \E c \in Calls : PredictReturn(c)

SpecPredict == Init /\ [][NextPredict]_vars

\* The Attribution Generator on every pair of small tensors.
NextGradCam == PredictGradCam

SpecGradCam == Init /\ [][NextGradCam]_vars

\* The Localizer on candidates around the confidence floor.
NextLocalizer ==
    \/ HandleImageMessage(OneUser, CandidateLists)
    \/ HandleViewReport

SpecLocalizer == Init /\ [][NextLocalizer]_vars

-----------------------------------------------------------------------------
(* services/database.py on its own: save_report followed by get_report,    *)
(* for the reports phase 1 returns and the reports lines 336-337 of        *)
(* run_cnn_phase build.                                                    *)

\* the reports run_yolo_phase returns when every call it makes succeeds
PhaseOneReports ==
    {RunYoloPhase(u, r, 0, img, boxes, ImageEnvOk).report[1] :
        u \in OneUser, r \in ReportIds, img \in {i \in Images : i.decodable},
        boxes \in BoxLists}

\* a WAITING_USER report with report.cnn_result and report.current_status
\* assigned as in step 6 of run_cnn_phase
CompletedReports ==
    {[rep EXCEPT
        !.cnn_result =
            LET p == ClassifyPredict(pp[1], pp[2], DEFAULT_AI_THRESH_LOW,
                                     DEFAULT_AI_THRESH_HIGH)
            IN <<[p.result EXCEPT !.heatmap_image_url =
                     IF p.heatmap THEN SignedUrl("heatmaps") ELSE NoneUrl]>>,
        !.current_status = COMPLETED] :
     rep \in {x \in PhaseOneReports : x.current_status = WAITING_USER},
     pp \in ProbPairs}

\* db_service.save_report(report) and then db_service.get_report(report_id)
DbSaveThenLoad ==
    /\ \E report \in PhaseOneReports \cup CompletedReports, saveOk, loadOk \in BOOLEAN :
        /\ store' = SaveReport(store, report, saveOk)
        /\ lastEvent' = [Event("save_load", report.report_id) EXCEPT
                            !.report = GetReport(store', report.report_id, loadOk),
                            !.met = [saved |-> report, saveOk |-> saveOk,
                                     loadOk |-> loadOk]]
    /\ UNCHANGED <<settings, gcs, yoloCalls, cnnCalls, nextId, clock, faults, classifier,
                   user_rag_state, user_survey_state>>

NextRoundTrip == DbSaveThenLoad

SpecRoundTrip == Init /\ [][NextRoundTrip]_vars

-----------------------------------------------------------------------------
(* Properties of the confirmation handler                                  *)

\* C1: confirming a report again is an idempotent read.  While every call
\* to the services around the bot succeeds, the first confirmation of a
\* report completes it, so no report has the classifier run on it more than
\* once, however often its confirmation is repeated.
C1_ClassifierRunsOncePerReport ==
    faults = 0 => \A r \in ReportIds : cnnCalls[r] <= 1

\* C2: a confirmation of a stored WAITING_USER report that has a crop, handled
\* with the crop download, the classifier run, every upload and every other
\* call succeeding, leaves the stored report COMPLETED with a cnn_result.
C2_ConfirmationCompletes ==
    [][\A r \in ReportIds :
        ( /\ lastEvent'.kind = "confirm"
          /\ lastEvent'.report_id = r
          /\ faults' = faults
          /\ Len(store[r]) = 1
          /\ store[r][1].current_status = EnumValue(WAITING_USER)
          /\ ~Falsy(store[r][1].yolo_result[1].crop_image_url) )
        => /\ Len(store'[r]) = 1
           /\ store'[r][1].current_status = EnumValue(COMPLETED)
           /\ Len(store'[r][1].cnn_result) = 1]_vars

\* C3: when phase 2 raises for a stored report that has a crop, because the
\* crop download, the classifier, an encoding or an upload up to that of the
\* boxed original failed, the stored status of that report becomes FAILED
\* and the user is sent the error reply.
C3_FailureIsStored ==
    [][\A r \in ReportIds :
        ( /\ lastEvent'.kind = "confirm"
          /\ lastEvent'.report_id = r
          /\ lastEvent'.raised
          /\ faults' > faults
          /\ "boxed" \notin {lastEvent'.puts[i] : i \in 1..Len(lastEvent'.puts)}
          /\ Len(store[r]) = 1
          /\ ~Falsy(store[r][1].yolo_result[1].crop_image_url) )
        => /\ Len(store'[r]) = 1
           /\ store'[r][1].current_status = EnumValue(FAILED)
           /\ "cnn_error" \in {lastEvent'.replies[i] : i \in 1..Len(lastEvent'.replies)}]_vars

\* C4: a confirmation of a stored report whose status is neither WAITING_USER
\* nor COMPLETED is rejected: phase 2 raises before it downloads anything, the
\* classifier is not called, nothing is uploaded, the store is left as it was
\* and the user is sent the error reply.  (When the Firestore read itself
\* fails the handler sees no report and answers not-found instead.)
C4_ConfirmOutsideGateRejected ==
    [][\A r \in ReportIds :
        ( /\ lastEvent'.kind = "confirm"
          /\ lastEvent'.report_id = r
          /\ Len(store[r]) = 1
          /\ store[r][1].current_status
                \notin {EnumValue(WAITING_USER), EnumValue(COMPLETED)} )
        => /\ cnnCalls' = cnnCalls
           /\ store' = store
           /\ gcs' = gcs
           /\ lastEvent'.puts = <<>>
           /\ lastEvent'.cnn = <<>>
           /\ \/ lastEvent'.raised /\ lastEvent'.replies = <<"cnn_error">>
              \/ ~lastEvent'.raised /\ Head(lastEvent'.replies) = "not_found"]_vars

\* a FAILED report has been confirmed and the confirmation was rejected
C4_Witness ==
    /\ lastEvent.kind = "confirm"
    /\ lastEvent.report_id \in ReportIds
    /\ lastEvent.raised
    /\ Len(store[lastEvent.report_id]) = 1
    /\ store[lastEvent.report_id][1].current_status = EnumValue(FAILED)
    /\ store[lastEvent.report_id][1].yolo_result[1].is_detected

\* C5: a confirmation whose report_id has no document in the store is
\* answered with the not-found reply: phase 2 does not run, the classifier is
\* not called, nothing is uploaded and the store is left as it was.
C5_UnknownReportNotFound ==
    [][\A r \in ReportIds \cup {GhostId} :
        ( /\ lastEvent'.kind = "confirm"
          /\ lastEvent'.report_id = r
          /\ (r \in ReportIds => Len(store[r]) = 0) )
        => /\ Head(lastEvent'.replies) = "not_found"
           /\ ~lastEvent'.raised
           /\ lastEvent'.report = <<>>
           /\ lastEvent'.cnn = <<>>
           /\ lastEvent'.puts = <<>>
           /\ cnnCalls' = cnnCalls
           /\ gcs' = gcs
           /\ store' = store]_vars

\* a confirmation for an id with no document was handled while the store
\* held a report waiting for its confirmation
C5_Witness ==
    /\ lastEvent.kind = "confirm"
    /\ lastEvent.replies = <<"not_found">>
    /\ lastEvent.report_id \in ReportIds \cup {GhostId}
    /\ lastEvent.report_id \in ReportIds => Len(store[lastEvent.report_id]) = 0
    /\ \E r \in ReportIds :
        /\ Len(store[r]) = 1
        /\ store[r][1].current_status = EnumValue(WAITING_USER)

-----------------------------------------------------------------------------
(* Properties of phase 1                                                   *)

\* C6: every report run_yolo_phase returns is WAITING_USER or FAILED, and it
\* is WAITING_USER exactly when an eye was detected, the crop cut out of the
\* picture is not empty and the crop was uploaded.
C6_PhaseOneStatus ==
    (lastEvent.kind = "image" /\ Len(lastEvent.report) = 1) =>
        LET report == lastEvent.report[1]
            yolo == report.yolo_result[1]
            img == CHOOSE i \in Images : i.decodable
            uploaded == {lastEvent.puts[i] : i \in 1..Len(lastEvent.puts)}
        IN /\ report.current_status \in {WAITING_USER, FAILED}
           /\ report.current_status = WAITING_USER <=>
                /\ yolo.is_detected
                /\ Len(yolo.bbox) = 4
                /\ CropSize(yolo.bbox, img.w, img.h) > 0
                /\ "crops" \in uploaded

\* phase 1 returned a report with an eye detected whose crop was empty
C6_Witness ==
    /\ lastEvent.kind = "image"
    /\ Len(lastEvent.report) = 1
    /\ lastEvent.report[1].yolo_result[1].is_detected
    /\ lastEvent.report[1].current_status = FAILED

\* C7: a stored detection with is_detected false has confidence 0, no bbox
\* and no crop URL, and the classifier is never called for its report,
\* whatever events follow.
C7_NotDetectedNeverClassified ==
    \A r \in ReportIds :
        (Len(store[r]) = 1 /\ ~store[r][1].yolo_result[1].is_detected) =>
            /\ store[r][1].yolo_result[1].confidence = 0
            /\ store[r][1].yolo_result[1].bbox = <<>>
            /\ store[r][1].yolo_result[1].crop_image_url = NoneUrl
            /\ cnnCalls[r] = 0

\* a confirmation postback was handled for a report with no eye detected
C7_Witness ==
    /\ lastEvent.kind = "confirm"
    /\ lastEvent.report_id \in ReportIds
    /\ Len(store[lastEvent.report_id]) = 1
    /\ ~store[lastEvent.report_id][1].yolo_result[1].is_detected
    /\ lastEvent.replies = <<"cnn_error">>

-----------------------------------------------------------------------------
(* Properties of the classifier                                            *)

\* C8: the status the classifier returns is fixed by the dominant probability
\* p and the two thresholds: NOT_DETECTED below low, RISK from low up to but
\* not including high, DETECTED from high upward.
C8_StatusFromThresholds ==
    (lastEvent.kind = "confirm" /\ Len(lastEvent.cnn) = 1) =>
        LET cnn == lastEvent.cnn[1]
            p == cnn.confidence
            low == settings.AI_THRESH_LOW
            high == settings.AI_THRESH_HIGH
        IN /\ p = Max(cnn.prob_cataract, cnn.prob_conjunctivitis)
           /\ p < low => cnn.status = NOT_DETECTED
           /\ (low <= p /\ p < high) => cnn.status = RISK
           /\ p >= high => cnn.status = DETECTED

\* the classifier ran on a crop whose dominant probability is exactly the
\* upper threshold taken from the environment
C8_Witness ==
    /\ lastEvent.kind = "confirm"
    /\ Len(lastEvent.cnn) = 1
    /\ settings \in EnvSettings
    /\ lastEvent.cnn[1].confidence = settings.AI_THRESH_HIGH
    /\ lastEvent.cnn[1].status = DETECTED

-----------------------------------------------------------------------------
(* Properties of the lifecycle                                             *)

\* C10: once the stored status of a report is COMPLETED or FAILED, no event
\* (a confirmation, a view_report, a history query, another upload) changes
\* the status stored for that report.
C10_TerminalStatusKept ==
    [][\A r \in ReportIds :
        ( /\ Len(store[r]) = 1
          /\ store[r][1].current_status \in {EnumValue(COMPLETED), EnumValue(FAILED)} )
        => /\ Len(store'[r]) = 1
           /\ store'[r][1].current_status = store[r][1].current_status]_vars

\* a report is stored FAILED and a later upload has stored another report
C10_Witness ==
    /\ lastEvent.kind = "image"
    /\ \E r \in ReportIds :
        /\ r # lastEvent.report_id
        /\ Len(store[r]) = 1
        /\ store[r][1].current_status = EnumValue(FAILED)
        /\ cnnCalls[r] = 0
    /\ lastEvent.report_id \in ReportIds
    /\ Len(store[lastEvent.report_id]) = 1

-----------------------------------------------------------------------------
(* Properties of the uploads                                               *)

\* C12: when an eye was detected and its crop cut out but the upload of the
\* crop raises, phase 1 fails: the handler stores no report for the
\* submission and sends the user the error reply; and an id drawn for a
\* submission that stored nothing never gets a document later, so no report
\* of that submission is ever WAITING_USER.
C12_CropUploadFailureFailsPhaseOne ==
    [][/\ ( /\ lastEvent'.kind = "image"
            /\ nextId' = nextId + 1
            /\ lastEvent'.met.img.decodable
            /\ lastEvent'.met.env.origUp # "upload_error"
            /\ YoloPredict(lastEvent'.met.boxes).is_detected
            /\ CropSize(YoloPredict(lastEvent'.met.boxes).bbox,
                        lastEvent'.met.img.w, lastEvent'.met.img.h) > 0
            /\ lastEvent'.met.env.encodeOk
            /\ lastEvent'.met.env.cropUp = "upload_error" )
          => /\ lastEvent'.raised
             /\ lastEvent'.report = <<>>
             /\ lastEvent'.replies = <<"image_error">>
             /\ Len(store'[nextId]) = 0
       /\ \A r \in ReportIds :
            (r < nextId /\ Len(store[r]) = 0) => Len(store'[r]) = 0]_vars

\* the upload of the crop of a detected eye has just failed
C12_Witness ==
    /\ lastEvent.kind = "image"
    /\ lastEvent.report_id \in ReportIds
    /\ lastEvent.met.env.cropUp = "upload_error"
    /\ YoloPredict(lastEvent.met.boxes).is_detected
    /\ yoloCalls[lastEvent.report_id] = 1
    /\ lastEvent.puts = <<"original">>
    /\ lastEvent.raised

\* C13: every URL a stored report holds (original_image_url, crop_image_url,
\* heatmap_image_url) is the non-empty signed URL of an uploaded blob, and
\* every stored WAITING_USER report has such a crop_image_url.
C13_StoredHandlesUsable ==
    \A r \in ReportIds :
        Len(store[r]) = 1 =>
            LET report == store[r][1]
                yolo == report.yolo_result[1]
            IN /\ report.original_image_url = SignedUrl("original")
               /\ "original" \in gcs
               /\ yolo.crop_image_url \in {NoneUrl, SignedUrl("crops")}
               /\ yolo.crop_image_url # NoneUrl => "crops" \in gcs
               /\ report.current_status = EnumValue(WAITING_USER)
                    => yolo.crop_image_url = SignedUrl("crops")
               /\ Len(report.cnn_result) = 1 =>
                    report.cnn_result[1].heatmap_image_url
                        \in {NoneUrl, SignedUrl("heatmaps")}

-----------------------------------------------------------------------------
(* Properties of the attribution                                           *)

\* C14: for a classification with status NOT_DETECTED no Grad-CAM overlay is
\* computed, no heat map is uploaded and heatmap_image_url stays None, in the
\* result phase 2 works on and in every stored result.
C14_NoAttributionWhenNotDetected ==
    /\ (lastEvent.kind = "confirm" /\ Len(lastEvent.cnn) = 1) =>
          LET cnn == lastEvent.cnn[1]
              p == ClassifyPredict(cnn.prob_cataract, cnn.prob_conjunctivitis,
                                   settings.AI_THRESH_LOW, settings.AI_THRESH_HIGH)
          IN cnn.status = NOT_DETECTED =>
                /\ ~p.heatmap
                /\ cnn.heatmap_image_url = NoneUrl
                /\ "heatmaps" \notin {lastEvent.puts[i] : i \in 1..Len(lastEvent.puts)}
    /\ \A r \in ReportIds :
          (Len(store[r]) = 1 /\ Len(store[r][1].cnn_result) = 1) =>
              (store[r][1].cnn_result[1].status = EnumValue(NOT_DETECTED)
                  => store[r][1].cnn_result[1].heatmap_image_url = NoneUrl)

\* phase 2 classified a crop NOT_DETECTED and went on to upload the boxed
\* original
C14_Witness ==
    /\ lastEvent.kind = "confirm"
    /\ Len(lastEvent.cnn) = 1
    /\ lastEvent.cnn[1].status = NOT_DETECTED
    /\ lastEvent.puts = <<"boxed">>

\* C15: a ClassificationResult with status RISK or DETECTED that phase 2 has
\* taken through the heat-map step, and every such result stored, has a
\* heatmap_image_url that is the non-empty signed URL of the uploaded heat map.
C15_AttributionPresent ==
    /\ ( /\ lastEvent.kind = "confirm"
         /\ Len(lastEvent.cnn) = 1
         /\ lastEvent.cnn[1].status \in {RISK, DETECTED}
         /\ "heatmaps" \in {lastEvent.puts[i] : i \in 1..Len(lastEvent.puts)} )
       => lastEvent.cnn[1].heatmap_image_url = SignedUrl("heatmaps")
    /\ \A r \in ReportIds :
          (Len(store[r]) = 1 /\ Len(store[r][1].cnn_result) = 1) =>
              (store[r][1].cnn_result[1].status \in {EnumValue(RISK), EnumValue(DETECTED)}
                  => store[r][1].cnn_result[1].heatmap_image_url = SignedUrl("heatmaps"))

-----------------------------------------------------------------------------
(* Properties of handle_image_message                                      *)

\* C16: when the picture decodes, its upload goes through and YOLO returns no
\* box, phase 1 raises nothing: it returns a FAILED report whose yolo_result
\* has is_detected false, the handler saves that report (when the Firestore
\* write goes through) and the reply it sends asks the user to retake the
\* photo.
C16_NoEyeIsNormalOutcome ==
    ( /\ lastEvent.kind = "image"
      /\ lastEvent.met.env.contentOk
      /\ lastEvent.met.img.decodable
      /\ lastEvent.met.env.origUp # "upload_error"
      /\ lastEvent.met.boxes = <<>> )
    => /\ ~lastEvent.raised
       /\ Len(lastEvent.report) = 1
       /\ lastEvent.report[1].current_status = FAILED
       /\ ~lastEvent.report[1].yolo_result[1].is_detected
       /\ lastEvent.puts = <<"original">>
       /\ lastEvent.met.env.dbOk =>
            store[lastEvent.report_id] = <<ModelDump(lastEvent.report[1])>>
       /\ Head(lastEvent.replies) = "retake"
       /\ lastEvent.met.env.lineOk => lastEvent.replies = <<"retake">>

\* a picture with no eye in it was handled with every call succeeding
C16_Witness ==
    /\ lastEvent.kind = "image"
    /\ lastEvent.met.boxes = <<>>
    /\ lastEvent.met.img.decodable
    /\ lastEvent.met.env = ImageEnvOk
    /\ Len(store[lastEvent.report_id]) = 1
    /\ lastEvent.replies = <<"retake">>

-----------------------------------------------------------------------------
(* Properties of the record store                                          *)

\* C17: a report saved and then loaded by its report_id comes back equal to
\* the saved one in every field, the nested yolo_result and cnn_result and
\* the enum-valued current_status, status and disease included.
C17_SaveLoadRoundTrip ==
    ( /\ lastEvent.kind = "save_load"
      /\ lastEvent.met.saveOk
      /\ lastEvent.met.loadOk )
    => lastEvent.report = <<lastEvent.met.saved>>

\* a COMPLETED report with a RISK result was saved beside another document
\* and loaded back
C17_Witness ==
    /\ lastEvent.kind = "save_load"
    /\ lastEvent.met.saveOk
    /\ lastEvent.met.loadOk
    /\ Len(lastEvent.report) = 1
    /\ lastEvent.report[1].current_status = COMPLETED
    /\ Len(lastEvent.report[1].cnn_result) = 1
    /\ lastEvent.report[1].cnn_result[1].status = RISK
    /\ lastEvent.report[1].cnn_result[1].disease = CONJUNCTIVITIS
    /\ \E r \in ReportIds : r # lastEvent.report_id /\ Len(store[r]) = 1

\* C18: get_reports_by_user(user_id, limit) returns at most `limit` reports,
\* each a stored report of user_id and none twice, in non-increasing
\* timestamp order, as many as the limit and the user's documents allow, and
\* no document of the user left out is newer than a returned one.
C18_NewestReportsOfUser ==
    \A u \in Users, limit \in 0..(MaxImages + 1) :
        LET q == GetReportsByUser(store, u, limit, TRUE)
            mine == {r \in ReportIds : Len(store[r]) = 1 /\ store[r][1].user_id = u}
            returned == {q[i].report_id : i \in 1..Len(q)}
        IN /\ Len(q) <= limit
           /\ Len(q) = Min(limit, Cardinality(mine))
           /\ Cardinality(returned) = Len(q)
           /\ returned \subseteq mine
           /\ \A i \in 1..Len(q) :
                /\ q[i].user_id = u
                /\ q[i] = Validate(store[q[i].report_id][1])
           /\ \A i, j \in 1..Len(q) : i < j => q[i].timestamp >= q[j].timestamp
           /\ \A r \in mine \ returned, i \in 1..Len(q) :
                store[r][1].timestamp <= q[i].timestamp

\* a user with an older and a newer report has asked for the history and
\* was listed the newer one first
C18_Witness ==
    /\ lastEvent.kind = "history"
    /\ Len(lastEvent.report) = 2
    /\ \A r \in ReportIds : Len(store[r]) = 1
    /\ store[lastEvent.report[1]][1].timestamp > store[lastEvent.report[2]][1].timestamp
    /\ store[lastEvent.report[1]][1].user_id = store[lastEvent.report[2]][1].user_id

-----------------------------------------------------------------------------
(* Properties of the decoding                                              *)

\* C20: when the bytes of an image message do not decode, phase 1 ends with
\* a report of that submission stored with status FAILED.
C20_UndecodableStoredFailed ==
    ( /\ lastEvent.kind = "image"
      /\ lastEvent.met.env = ImageEnvOk
      /\ ~lastEvent.met.img.decodable )
    => /\ lastEvent.report_id \in ReportIds
       /\ Len(store[lastEvent.report_id]) = 1
       /\ store[lastEvent.report_id][1].current_status = EnumValue(FAILED)

-----------------------------------------------------------------------------
(* Properties of the bounding box and the crop                             *)

\* C21: the bbox of every stored yolo_result lies within the picture it was
\* detected in: 0 <= x1, 0 <= y1, x2 <= width, y2 <= height, whatever box
\* the detector returned.
C21_StoredBoxWithinImage ==
    \A r \in ReportIds :
        (Len(store[r]) = 1 /\ Len(store[r][1].yolo_result[1].bbox) = 4) =>
            LET bbox == store[r][1].yolo_result[1].bbox
                img == CHOOSE i \in Images : i.decodable
            IN /\ 0 <= bbox[1]
               /\ 0 <= bbox[2]
               /\ bbox[3] <= img.w
               /\ bbox[4] <= img.h

\* the box the Localizer picked for the picture of the last image event
LastBestBox ==
    LET boxes == ModelPredict(lastEvent.met.boxes) IN boxes[ArgMax(boxes)].xyxy

\* an image event whose picture was fetched, decoded and uploaded, and in
\* which the Localizer found an eye
LastImageEventLocalized ==
    /\ lastEvent.kind = "image"
    /\ lastEvent.met # <<>>
    /\ lastEvent.met.env.contentOk
    /\ lastEvent.met.img.decodable
    /\ lastEvent.met.env.origUp # "upload_error"
    /\ Len(ModelPredict(lastEvent.met.boxes)) > 0

\* the part of the box that lies within the w x h picture is empty
RegionEmpty(xyxy, w, h) ==
    \/ Max(0, xyxy[1]) >= Min(w, xyxy[3])
    \/ Max(0, xyxy[2]) >= Min(h, xyxy[4])

\* C22: when the part of the picked box that lies within the picture has no
\* area, phase 1 returns without raising a FAILED report with no crop handle,
\* uploads no crop, and the user is told to take the picture again instead
\* of being sent a confirmation card.
C22_EmptyRegionFailsPhaseOne ==
    (/\ LastImageEventLocalized
     /\ RegionEmpty(LastBestBox, lastEvent.met.img.w, lastEvent.met.img.h)) =>
        /\ ~lastEvent.raised
        /\ Len(lastEvent.report) = 1
        /\ lastEvent.report[1].current_status = FAILED
        /\ lastEvent.report[1].yolo_result[1].crop_image_url = NoneUrl
        /\ "crops" \notin {lastEvent.puts[i] : i \in 1..Len(lastEvent.puts)}
        /\ Head(lastEvent.replies) = "no_crop"
        /\ \A i \in 1..Len(lastEvent.replies) :
              lastEvent.replies[i] \notin {"crop_card", "crop_fallback"}

\* C23: in every report phase 1 returns the crop handle is present exactly
\* when the status is WAITING_USER, that is exactly when an eye was found,
\* the crop was not empty and it was uploaded.
C23_CropHandleIffWaiting ==
    (lastEvent.kind = "image" /\ Len(lastEvent.report) = 1) =>
        LET report == lastEvent.report[1]
            yolo == report.yolo_result[1]
            uploaded == "crops" \in {lastEvent.puts[i] : i \in 1..Len(lastEvent.puts)}
        IN /\ ~Falsy(yolo.crop_image_url) <=> report.current_status = WAITING_USER
           /\ ~Falsy(yolo.crop_image_url) <=>
                 (/\ yolo.is_detected
                  /\ CropSize(yolo.bbox, lastEvent.met.img.w, lastEvent.met.img.h) > 0
                  /\ uploaded)

-----------------------------------------------------------------------------
(* Properties of the Localizer                                             *)

\* C24: the Localizer reports an eye exactly when some candidate has a
\* confidence at or above the floor, and then returns the confidence and the
\* box of the first candidate of maximal confidence.
C24_FoundIffCandidateAtOrAboveFloor ==
    (/\ lastEvent.kind = "image"
     /\ Len(lastEvent.report) = 1) =>
        LET candidates == lastEvent.met.boxes
            yolo == lastEvent.report[1].yolo_result[1]
            AtOrAbove(c) == c.conf >= AI_CONF_THRESHOLD
            surviving == SelectSeq(candidates, AtOrAbove)
        IN /\ yolo.is_detected <=> Len(surviving) > 0
           /\ yolo.is_detected =>
                 /\ yolo.confidence = surviving[ArgMax(surviving)].conf
                 /\ yolo.bbox = surviving[ArgMax(surviving)].xyxy

-----------------------------------------------------------------------------
(* Properties of the Classifier                                            *)

\* C25: the confidence of a CnnResult is the larger of the two sigmoid
\* outputs, its disease is a condition whose output is that maximum
\* (conjunctivitis when the two are equal, never NONE), the Grad-CAM target
\* index is the index of that condition, and both outputs are stored as they
\* came.
C25_DominantConditionIsMaximum ==
    (lastEvent.kind = "confirm" /\ Len(lastEvent.cnn) = 1) =>
        LET cnn == lastEvent.cnn[1]
            p_cat == lastEvent.met.probs[1]
            p_conj == lastEvent.met.probs[2]
        IN /\ cnn.confidence = Max(p_cat, p_conj)
           /\ cnn.disease \in {CATARACT, CONJUNCTIVITIS}
           /\ cnn.disease = CATARACT => p_cat = cnn.confidence
           /\ cnn.disease = CONJUNCTIVITIS => p_conj = cnn.confidence
           /\ p_cat = p_conj => cnn.disease = CONJUNCTIVITIS
           /\ lastEvent.met.target_idx = (IF cnn.disease = CATARACT THEN 0 ELSE 1)
           /\ cnn.prob_cataract = p_cat
           /\ cnn.prob_conjunctivitis = p_conj

\* a classifier run on equal outputs, and one on a larger cataract output
C25_Witness ==
    /\ lastEvent.kind = "confirm"
    /\ Len(lastEvent.cnn) = 1
    /\ lastEvent.met.probs[1] = lastEvent.met.probs[2]
    /\ lastEvent.cnn[1].disease = CONJUNCTIVITIS
    /\ lastEvent.cnn[1].status = DETECTED

\* C26: when the gradient the Attribution Generator is given is all zeros,
\* the rectified weighted map has maximum 0, the division by the maximum is
\* skipped, the heat map stays all zeros, and generate still returns a colour
\* image, which predict blends into the crop.
C26_ZeroGradientGivesFlatOverlay ==
    (lastEvent.kind = "gradcam" /\ lastEvent.met.gradients = ZeroTensor) =>
        /\ Len(lastEvent.cnn) = 1
        /\ lastEvent.cnn[1].max4 = 0
        /\ ~lastEvent.cnn[1].divided
        /\ \A q \in 1..Positions : lastEvent.cnn[1].heatmap[q] = <<0, 4>>
        /\ \A k \in 1..TargetWidth : lastEvent.cnn[1].heatmap_color[k].jet = 0
        /\ Len(lastEvent.report) = 1
        /\ \A k \in 1..TargetWidth :
              lastEvent.report[1][k] = [crop60 |-> CropPixels[k], jet40 |-> 0]

\* generate ran on a zero gradient and features that are not zero
C26_Witness ==
    /\ lastEvent.kind = "gradcam"
    /\ lastEvent.met.gradients = ZeroTensor
    /\ lastEvent.met.features[1][1] = 2
    /\ Len(lastEvent.report) = 1

-----------------------------------------------------------------------------
(* Properties of the configuration                                         *)

\* C27: whatever the environment the process started with, the thresholds in
\* effect satisfy 0 <= low < high <= 1.
C27_ThresholdsOrdered ==
    /\ 0 <= settings.AI_THRESH_LOW
    /\ settings.AI_THRESH_LOW < settings.AI_THRESH_HIGH
    /\ settings.AI_THRESH_HIGH <= 100

-----------------------------------------------------------------------------
(* Properties of reports side by side                                      *)

\* C28: handling an event of one report leaves the stored record of every
\* other report, and the number of Localizer and Classifier runs made for
\* it, as they were, however the events of two users' reports interleave;
\* a stored record is the record of the report it is stored under.
C28_OtherReportsUntouched ==
    [][\A q \in ReportIds :
          /\ q # lastEvent'.report_id =>
                /\ store'[q] = store[q]
                /\ yoloCalls'[q] = yoloCalls[q]
                /\ cnnCalls'[q] = cnnCalls[q]
          /\ Len(store'[q]) = 1 => store'[q][1].report_id = q]_vars

\* the reports of two users are stored and the classifier has just run for
\* the first of them only
C28_Witness ==
    /\ Len(store[1]) = 1
    /\ Len(store[2]) = 1
    /\ store[1][1].user_id # store[2][1].user_id
    /\ lastEvent.kind = "confirm"
    /\ lastEvent.report_id = 1
    /\ cnnCalls[1] = 1
    /\ cnnCalls[2] = 0
    /\ yoloCalls[2] = 1

\* C30: handling an image message ends with a reply and without a
\* classifier run, and the stored record of a report that waits for its
\* confirmation changes only when a confirmation of that report is handled:
\* neither the passing of time nor any other event changes it.
C30_WaitingReportKept ==
    [][/\ \A r \in ReportIds :
             (/\ Len(store[r]) = 1
              /\ store[r][1].current_status = EnumValue(WAITING_USER)
              /\ store'[r] # store[r]) =>
                 (lastEvent'.kind = "confirm" /\ lastEvent'.report_id = r)
       /\ (lastEvent' # lastEvent /\ lastEvent'.kind = "image"
           /\ Len(lastEvent'.report) = 1) =>
             /\ Len(lastEvent'.replies) > 0
             /\ cnnCalls'[lastEvent'.report_id] = 0]_vars

\* a report taken at time 0 still waits after the clock has advanced and the
\* other user has sent a picture and asked for the history
C30_Witness ==
    /\ clock = MaxClock
    /\ Len(store[1]) = 1
    /\ store[1][1].timestamp = 0
    /\ store[1][1].current_status = EnumValue(WAITING_USER)
    /\ Len(store[2]) = 1
    /\ store[2][1].user_id # store[1][1].user_id
    /\ store[2][1].timestamp = MaxClock
    /\ lastEvent.kind = "history"

-----------------------------------------------------------------------------
(* Properties of predict calls side by side                                *)

\* C29: when two predict calls on the shared model interleave, what each
\* call computes depends on its own crop only: its CnnResult is the one of
\* its crop, the gradient it holds after backward() is the gradient of its
\* own graph, and the features and the gradient it hands to the Grad-CAM
\* generator are its own, whatever the other call has written or cleared.
C29_PredictCallsIndependent ==
    \A c \in Calls :
        LET f == classifier.frame[c]
            alone == ClassifyPredict(f.crop[1], f.crop[2], settings.AI_THRESH_LOW,
                                     settings.AI_THRESH_HIGH)
        IN /\ f.pc \in {"parsed", "backed", "returning"} => f.p = alone
           /\ f.pc = "backed" => f.grad = GradientOf(f.crop, alone.target_idx)
           /\ (f.pc = "returning" /\ alone.heatmap) =>
                 f.generated = <<[features |-> FeaturesOf(f.crop),
                                  gradients |-> GradientOf(f.crop, alone.target_idx)]>>

\* the first call has made its heat map while the second, on another crop,
\* cleared the shared gradients after the first call's backward() and has
\* run its own backward()
C29_Witness ==
    /\ classifier.frame[1].pc = "returning"
    /\ Len(classifier.frame[1].generated) = 1
    /\ classifier.frame[2].pc = "backed"
    /\ classifier.frame[2].crop # classifier.frame[1].crop
    /\ classifier.paramGrad = <<classifier.frame[2].grad>>

-----------------------------------------------------------------------------
(* Properties of the read operations                                       *)

\* C31: a view_report postback and a history command change no stored
\* report, upload nothing and run neither the Localizer nor the Classifier,
\* whatever the status of the reports they read.
C31_ReadsChangeNothing ==
    [][lastEvent'.kind \in {"view", "history"} =>
          /\ store' = store
          /\ gcs' = gcs
          /\ yoloCalls' = yoloCalls
          /\ cnnCalls' = cnnCalls]_vars

\* a stored FAILED report has been shown while another report waits
C31_Witness ==
    /\ lastEvent.kind = "view"
    /\ lastEvent.report_id = 1
    /\ Len(store[1]) = 1
    /\ store[1][1].current_status = EnumValue(FAILED)
    /\ Len(store[2]) = 1
    /\ store[2][1].current_status = EnumValue(WAITING_USER)
    /\ lastEvent.replies = <<"no_result">>

-----------------------------------------------------------------------------
(* Properties of the handlers' order of steps                              *)

\* C32: when the crop confirmation card of a report has been sent, the
\* report is in the record store, so that the confirm_cnn postback of the
\* card finds it.
C32_CardOnlyForStoredReport ==
    (lastEvent.kind = "image" /\ lastEvent.replies = <<"crop_card">>) =>
        /\ Len(store[lastEvent.report_id]) = 1
        /\ Len(GetReport(store, lastEvent.report_id, TRUE)) = 1

\* C33: when run_cnn_phase raises, at whatever step, the confirm_cnn handler
\* writes nothing: the stored report keeps its status and its null
\* cnn_result, and the error reply is attempted exactly once.
C33_CnnErrorWritesNothing ==
    [][\A r \in ReportIds :
          (/\ lastEvent' # lastEvent
           /\ lastEvent'.kind = "confirm"
           /\ lastEvent'.report_id = r
           /\ lastEvent'.raised) =>
              /\ store' = store
              /\ Len(store'[r]) = 1
              /\ store'[r][1].current_status = store[r][1].current_status
              /\ store'[r][1].cnn_result = <<>>
              /\ lastEvent'.replies = <<"cnn_error">>]_vars

\* phase 2 raised after the classifier had run and the boxed original had
\* been uploaded, and the report still waits for its confirmation
C33_Witness ==
    /\ lastEvent.kind = "confirm"
    /\ lastEvent.raised
    /\ Len(lastEvent.cnn) = 1
    /\ lastEvent.puts = <<"heatmaps", "boxed">>
    /\ lastEvent.report_id \in ReportIds
    /\ Len(store[lastEvent.report_id]) = 1
    /\ store[lastEvent.report_id][1].current_status = EnumValue(WAITING_USER)
    /\ store[lastEvent.report_id][1].cnn_result = <<>>
    /\ lastEvent.replies = <<"cnn_error">>

\* C34: when the bytes of an image message cannot be decoded, run_yolo_phase
\* raises before any side effect: nothing is uploaded, the Localizer is not
\* run and no report is written.
C34_UndecodableHasNoEffect ==
    [][(/\ lastEvent' # lastEvent
        /\ lastEvent'.kind = "image"
        /\ lastEvent'.met.env.contentOk
        /\ ~lastEvent'.met.img.decodable) =>
           /\ lastEvent'.raised
           /\ lastEvent'.puts = <<>>
           /\ gcs' = gcs
           /\ yoloCalls' = yoloCalls
           /\ store' = store
           /\ Len(store'[lastEvent'.report_id]) = 0]_vars

\* an undecodable picture was fetched while every service worked, and the
\* handler answered with the error reply
C34_Witness ==
    /\ lastEvent.kind = "image"
    /\ lastEvent.met.env = ImageEnvOk
    /\ ~lastEvent.met.img.decodable
    /\ lastEvent.raised
    /\ lastEvent.report_id \in ReportIds
    /\ lastEvent.replies = <<"image_error">>
    /\ gcs = {}

-----------------------------------------------------------------------------
(* Properties of the chat, the consultation and the questionnaires         *)

\* C35: the consultation flag is one-shot.  An ask_llm postback sets the
\* user's flag; the user's next text that is no command is answered through
\* the rag_consultation prompt and clears the flag, whether or not the LLM
\* call and the reply succeed; a text that is no command of a user whose
\* flag is not set goes the ordinary way; a command leaves the flag alone,
\* and so does everything another user sends.
C35_ConsultationFlagOneShot ==
    [][\A u \in Users :
          LET byU == /\ lastEvent' # lastEvent
                     /\ lastEvent'.kind \in {"text", "postback"}
                     /\ lastEvent'.met.user_id = u
              free == byU /\ lastEvent'.kind = "text" /\ lastEvent'.met.command = "none"
              rag == /\ Len(lastEvent'.llm) = 1
                     /\ lastEvent'.llm[1].task = "rag_consultation"
          IN /\ (byU /\ lastEvent'.kind = "postback" /\ lastEvent'.met.data = DataAskLlm)
                    => user_rag_state'[u]
             /\ (free /\ user_rag_state[u]) => (rag /\ ~user_rag_state'[u])
             /\ (free /\ ~user_rag_state[u]) => (~rag /\ ~user_rag_state'[u])
             /\ (byU /\ lastEvent'.kind = "text" /\ lastEvent'.met.command # "none")
                    => user_rag_state'[u] = user_rag_state[u]
             /\ (user_rag_state'[u] # user_rag_state[u]) => byU]_vars

\* a consultation was answered with the LLM's apology and the flag is
\* cleared, while the other user's flag is still set
C35_Witness ==
    /\ lastEvent.kind = "text"
    /\ lastEvent.met.user_id = "u1"
    /\ lastEvent.met.command = "none"
    /\ lastEvent.llm = <<[task |-> "rag_consultation", text |-> lastEvent.met.text]>>
    /\ lastEvent.replies = <<"llm_apology">>
    /\ ~user_rag_state["u1"]
    /\ user_rag_state["u2"]

\* C36: a text of more than 10 characters that is no command is never
\* handed to the LLM; the user gets the length warning, whatever the state
\* of the user's session.
C36_LongTextNeverReachesLlm ==
    (/\ lastEvent.kind = "text"
     /\ lastEvent.met.command = "none"
     /\ Len(lastEvent.met.text) > CHAT_TEXT_LIMIT) =>
        /\ lastEvent.llm = <<>>
        /\ lastEvent.replies = <<"length_warning">>

\* C37: with every service working, a postback whose data is "camera" is
\* answered with the take-a-photo prompt, and one whose data is
\* "cataract_ques" starts the cataract questionnaire: the user's entry is
\* initialised and the first question is sent.
C37_CameraAndCataractPostbacks ==
    (lastEvent.kind = "postback" /\ faults = 0) =>
        /\ lastEvent.met.data = DataCamera => lastEvent.replies = <<"photo_prompt">>
        /\ lastEvent.met.data = DataCataractQues =>
              /\ lastEvent.replies = <<"question">>
              /\ user_survey_state[lastEvent.met.user_id] =
                    <<[current_survey |-> "cataract", answers |-> <<>>]>>

\* C38: after a questionnaire postback with next=result the user has no
\* entry in user_survey_state, whether or not the summary succeeded; a start
\* command leaves the user with no accumulated answers; and
\* the answers summarised are those accumulated in the user's entry followed
\* by the answer of the postback.
C38_SurveyStateClearedAtResult ==
    [][\A u \in Users :
          LET byU == /\ lastEvent' # lastEvent
                     /\ lastEvent'.kind \in {"text", "postback"}
                     /\ lastEvent'.met.user_id = u
              before == IF user_survey_state[u] = <<>> THEN <<>>
                        ELSE user_survey_state[u][1].answers
          IN /\ (/\ byU
                 /\ lastEvent'.kind = "postback"
                 /\ ~ParseRaises(lastEvent'.met.data)
                 /\ ParamsGet(ParseParams(lastEvent'.met.data), "next") = "result") =>
                    /\ user_survey_state'[u] = <<>>
                    /\ Len(lastEvent'.llm) = 1
                    /\ lastEvent'.llm[1].answers =
                          Append(before, AnswerData(ParseParams(lastEvent'.met.data)))
             /\ (/\ byU
                 /\ lastEvent'.kind = "text"
                 /\ lastEvent'.met.command \in {"text_mode", "cataract", "conjunctivitis"}) =>
                    \/ user_survey_state'[u] = <<>>
                    \/ user_survey_state'[u][1].answers = <<>>]_vars

====
